---- MODULE Spec2Model ----
(***************************************************************************)
(* Album store, upload ingestion and archive building of the gallery       *)
(* backend, in its two variants: the Node server (backend/app.js) and the  *)
(* PHP server (helpers.php / index.php / config.php).  Requests are served *)
(* one at a time; every handler is one action.                             *)
(*                                                                         *)
(* Strings that the code inspects character by character (album names,    *)
(* file base names) are sequences of one-character strings.  Every stored  *)
(* file carries the extension ".jpg", which is left implicit.  Timestamps  *)
(* (createdAt, updatedAt, uploadedAt) and photo ids, widths, heights and   *)
(* titles are not modelled; res.wrote records that a handler rewrote the   *)
(* JSON document.                                                          *)
(***************************************************************************)
EXTENDS Integers, Sequences, FiniteSets, TLC

\* ---------------------------------------------------------------- bounds
MaxAlbums == 2      \* album ids ever generated
MaxBatch  == 2      \* files in one upload request
MaxStored == 4      \* files on disk, and Photo entities, over all albums
MaxFiles  == 62     \* files handed to one call of uploadAlbum
MaxFolders == 2     \* folders listed in the upload zone
MaxFetches == 2     \* requests of the admin page in flight
MaxDepth  == 3      \* folders above an uploaded file
MaxInflight == 2    \* requests served at the same time
MaxRequests == 4    \* requests received in one run of the concurrent server
MaxFingers == 2     \* fingers on the screen at the same time
MaxTimers == 2      \* pending timeouts of the masonry's interaction pause
MaxPhotos == 2      \* photos the full-screen viewer pages through
MaxPan == 1         \* pan offset of the zoomed photo, either way
MaxPinches == 3     \* pinch gestures on the full-screen viewer in one run

\* ---------------------------------------------------------------- inputs
\* Album names a client sends: missing/empty, blank, padded.
NameInputs == { <<>>, <<" ">>, <<" ", "W">> }

\* Album names with a path separator in them.
PathNameInputs == { <<"W", "/", "W">> }

\* Relative folder of an uploaded file (ancestor segments of its path).
FolderInputs == { <<>>, <<"light">>, <<"max">> }

\* Base names of uploaded files, before sanitising.
BaseInputs == { <<"a">>, <<"a", "?">> }

\* kind: "ok" passes validation, "mime" has a content type outside the
\* allowed set, "big" exceeds the maximum size.
FileInputs ==
    [segs : FolderInputs, base : {<<"a">>}, kind : {"ok"}]
      \cup [segs : {<<>>}, base : BaseInputs \ {<<"a">>}, kind : {"ok", "mime", "big"}]

\* What can go wrong while a request is served: the at-th move of a file
\* into the album fails ("move"), the at-th thumbnail cannot be made because
\* the image type is not supported ("thumbType") or because the image does
\* not decode ("thumbDecode").
NoFault == [at |-> 0, what |-> "none"]

FaultInputs ==
    {NoFault} \cup [at : 1 .. MaxBatch, what : {"move", "thumbType", "thumbDecode"}]

ThumbFaults == {"thumbType", "thumbDecode"}

\* The files that pass validation.
ValidFileInputs == { f \in FileInputs : f.kind = "ok" /\ f.base = <<"a">> }

RECURSIVE SeqsUpTo(_, _)
SeqsUpTo(S, n) ==
    IF n = 0 THEN { <<>> }
    ELSE LET shorter == SeqsUpTo(S, n - 1)
         IN  shorter \cup { Append(s, x) : s \in shorter, x \in S }

\* ---------------------------------------------------------------- strings
Illegal == { "<", ">", ":", "\"", "/", "\\", "|", "?", "*" }

IsSpace(c) == c = " "

RECURSIVE TrimLeft(_)
TrimLeft(s) ==
    IF s # <<>> /\ IsSpace(Head(s)) THEN TrimLeft(Tail(s)) ELSE s

RECURSIVE TrimRight(_)
TrimRight(s) ==
    IF s # <<>> /\ IsSpace(s[Len(s)])
    THEN TrimRight(SubSeq(s, 1, Len(s) - 1)) ELSE s

Trim(s) == TrimRight(TrimLeft(s))

ReplaceIllegal(s) == [i \in DOMAIN s |-> IF s[i] \in Illegal THEN "_" ELSE s[i]]

RECURSIVE CollapseSpaces(_)
CollapseSpaces(s) ==
    IF Len(s) < 2 THEN s
    ELSE IF IsSpace(s[1]) /\ IsSpace(s[2]) THEN CollapseSpaces(Tail(s))
    ELSE <<s[1]>> \o CollapseSpaces(Tail(s))

\* A stored file name: leftover folder segments glued in front with "___",
\* the base name, and the " (N)" suffixes appended by the uniqueness loop.
FileName(pre, base, sfx) == [pre |-> pre, base |-> base, sfx |-> sfx]

\* sanitizeFilename applied to a name without directory part.
sanitizeFilename(fn) ==
    [fn EXCEPT !.base = Trim(CollapseSpaces(ReplaceIllegal(fn.base)))]

\* sanitize_filename: as above, with the 'photo' fallback.
sanitize_filename(fn) ==
    LET b == Trim(CollapseSpaces(ReplaceIllegal(fn.base)))
    IN  [fn EXCEPT !.base = IF b = <<>> THEN <<"photo">> ELSE b]

RECURSIVE UniqueFrom(_, _, _)
UniqueFrom(dir, filename, counter) ==
    LET candidate == [filename EXCEPT !.sfx = Append(filename.sfx, counter)]
    IN  IF candidate \in dir THEN UniqueFrom(dir, filename, counter + 1)
        ELSE candidate

getUniqueFilename(dir, filename) ==
    IF filename \in dir THEN UniqueFrom(dir, filename, 1) ELSE filename

get_unique_filename(dir, filename) ==
    IF filename \in dir THEN UniqueFrom(dir, filename, 1) ELSE filename

\* ---------------------------------------------------------------- state
VARIABLES
    env,        \* the surroundings of this run: the album names and the
                \* files its clients send, and whether its disk and its
                \* libraries can fail
    backend,    \* which server is deployed: "node" or "php"
    albums,     \* data/albums.json: the sequence of album records
    disk,       \* uploads/albums/<id>: id -> directory contents
    thumbs,     \* uploads/thumbnails/<id>: id -> thumbnail names
    nextId,     \* the next fresh album id (uuid)
    deleted,    \* ids whose DELETE was answered with success
    res,        \* the response to the last request
    storage,    \* the browser's sessionStorage item 'gallery_role'
    gallery,    \* the state of the mounted GalleryPage
    admin,      \* the state of the mounted AdminPage
    zone,       \* the state of the AdminPage's UploadZone
    upload,     \* the running call of uploadAlbum
    calc,       \* a function of the program applied to an input: both
    inflight,   \* the requests the server is serving at the same time
    viewer,     \* the state of the mounted MobileCinemaMode
    masonry     \* the state of the mounted MobilePortraitMasonry

serverVars == <<env, backend, albums, disk, thumbs, nextId, deleted, res>>

clientVars == <<storage, gallery, admin, zone, upload>>

auxVars == <<calc, inflight, viewer, masonry>>

vars == <<env, backend, albums, disk, thumbs, nextId, deleted, res,
          storage, gallery, admin, zone, upload,
          calc, inflight, viewer, masonry>>

\* A component that is not mounted, a function that is not running.
Unmounted == [pc |-> "unmounted"]

\* Nothing else is looked at.
NoAux ==
    /\ calc = Unmounted
    /\ inflight = <<>>
    /\ viewer = Unmounted
    /\ masonry = Unmounted

\* No browser is open.
NoClient ==
    /\ storage = "none"
    /\ gallery = Unmounted
    /\ admin = Unmounted
    /\ zone = Unmounted
    /\ upload = Unmounted

\* An album directory: the two sub-directories may or may not exist.
EmptyDir ==
    [lightDir |-> FALSE, maxDir |-> FALSE, root |-> {}, light |-> {}, max |-> {}]

Album(id, name, hasLightMax) ==
    [id |-> id, name |-> name, thumbnail |-> <<>>, photos |-> <<>>,
     hasLightMax |-> hasLightMax]

\* A Photo: where its image lives and the name of its thumbnail.  The
\* thumbnail reference is a one-element sequence so that the album's unset
\* thumbnail ('') is the empty sequence.
Photo(variant, name) ==
    [src |-> [dir |-> variant, name |-> name], thumbnail |-> <<name>>]

\* A response, together with the request fields the claims refer to: name is
\* the name the request carried, body the album the response carries (a
\* sequence of one album, empty when the response carries none).
Resp(op, status, err, id) ==
    [op |-> op, status |-> status, err |-> err, id |-> id,
     files |-> 0, valid |-> 0, added |-> 0, stored |-> 0, flat |-> FALSE,
     wrote |-> FALSE, zip |-> {}, name |-> <<>>, body |-> <<>>, light |-> 0]

\* The response to an upload request also tells how many files the request
\* carried and how many of them pass validation.
UpResp(op, status, err, id, batch) ==
    [Resp(op, status, err, id)
       EXCEPT !.files = Len(batch),
              !.valid = Len(SelectSeq(batch, LAMBDA f : f.kind = "ok"))]

AlbumIds == 1 .. MaxAlbums

\* findIndex / find_album_index: 0 stands for -1.
findIndex(as, id) ==
    IF \E i \in DOMAIN as : as[i].id = id
    THEN CHOOSE i \in DOMAIN as : as[i].id = id /\ \A j \in 1 .. (i - 1) : as[j].id # id
    ELSE 0

splice(as, i) == SubSeq(as, 1, i - 1) \o SubSeq(as, i + 1, Len(as))

DirOf(id) == IF id \in DOMAIN disk THEN disk[id] ELSE EmptyDir

ThumbsOf(id) == IF id \in DOMAIN thumbs THEN thumbs[id] ELSE {}

Put(f, k, v) == [x \in DOMAIN f \cup {k} |-> IF x = k THEN v ELSE f[x]]

Drop(f, k) == [x \in DOMAIN f \ {k} |-> f[x]]

FilesIn(d) == Cardinality(d.root) + Cardinality(d.light) + Cardinality(d.max)

RECURSIVE SumOver(_, _)
SumOver(f, S) ==
    IF S = {} THEN 0
    ELSE LET x == CHOOSE y \in S : TRUE IN f[x] + SumOver(f, S \ {x})

TotalFiles == SumOver([id \in DOMAIN disk |-> FilesIn(disk[id])], DOMAIN disk)

TotalPhotos == SumOver([i \in DOMAIN albums |-> Len(albums[i].photos)], DOMAIN albums)

\* The batches that still fit within the bounds of the model.
BatchesOfLen ==
    [S \in {FileInputs, ValidFileInputs} |-> [n \in 0 .. MaxBatch |-> SeqsUpTo(S, n)]]

Free == MaxStored - (IF TotalFiles > TotalPhotos THEN TotalFiles ELSE TotalPhotos)

\* The faults that can hit a request of this run that carries the batch.
Faults(batch) ==
    IF env.faults THEN { f \in FaultInputs : f.at <= Len(batch) } ELSE {NoFault}

ZipFaults == IF env.faults THEN BOOLEAN ELSE {FALSE}

Batches ==
    IF Free >= MaxBatch THEN BatchesOfLen[env.files][MaxBatch] ELSE BatchesOfLen[env.files][Free]

Start ==
    /\ backend \in {"node", "php"}
    /\ albums = <<>>
    /\ disk = <<>>
    /\ thumbs = <<>>
    /\ nextId = 1
    /\ deleted = {}
    /\ res = Resp("none", 0, "", 0)
    /\ NoClient
    /\ NoAux

Init == env = [names |-> NameInputs, files |-> FileInputs, faults |-> FALSE] /\ Start

\* The same program, serving clients that send names with a path separator.
PathInit == env = [names |-> PathNameInputs, files |-> FileInputs, faults |-> FALSE] /\ Start

\* ================================================================ Node
\* multer: the name of the temporary file of an uploaded file; folder
\* separators become "___" and the result is sanitised.
multerFilename(f) == sanitizeFilename(FileName(f.segs, f.base, <<>>))

\* multer's fileFilter and size limit: the first offending file aborts the
\* request before the handler runs.  0 means every file was accepted.
RECURSIVE multerReject(_)
multerReject(batch) ==
    IF batch = <<>> THEN 0
    ELSE IF Head(batch).kind = "mime" THEN 500
    ELSE IF Head(batch).kind = "big" THEN 400
    ELSE multerReject(Tail(batch))

\* req.files: every entry keeps its original name and its temporary path.
reqFiles(batch) ==
    [i \in DOMAIN batch |-> [orig |-> batch[i], filename |-> multerFilename(batch[i])]]

startsWith(file, variant) ==
    file.filename.pre # <<>> /\ Head(file.filename.pre) = variant

cleanName(file) == [file.filename EXCEPT !.pre = Tail(@)]

lightFilesOf(files) == SelectSeq(files, LAMBDA f : startsWith(f, "light"))

maxFilesOf(files) ==
    SelectSeq(files, LAMBDA f : ~startsWith(f, "light") /\ startsWith(f, "max"))

otherFilesOf(files) ==
    SelectSeq(files, LAMBDA f : ~startsWith(f, "light") /\ ~startsWith(f, "max"))

\* The progress of a handler through its files: ok turns FALSE when a step
\* throws; temp is the content of uploads/albums/temp left by multer.
NodeStart(files, d, th) ==
    [ok |-> TRUE, temp |-> { files[i].filename : i \in DOMAIN files },
     d |-> d, th |-> th, photos |-> <<>>, stored |-> 0]

\* fs.rename(file.path, <variant dir>/cleanName) for each file in turn; a
\* temporary file that is no longer there makes rename throw, and so does a
\* failing disk.
RECURSIVE moveFiles(_, _, _, _)
moveFiles(st, files, variant, fault) ==
    IF files = <<>> \/ ~st.ok THEN st
    ELSE LET file == Head(files)
         IN  IF file.filename \notin st.temp
                  \/ (fault.what = "move" /\ fault.at = st.stored + 1)
             THEN [st EXCEPT !.ok = FALSE]
             ELSE moveFiles([st EXCEPT !.temp = @ \ {file.filename},
                                       !.d[variant] = @ \cup {cleanName(file)},
                                       !.stored = @ + 1],
                            Tail(files), variant, fault)

\* One Photo per light file, with its thumbnail; generateThumbnail throws
\* when sharp cannot read or write the image.
RECURSIVE lightPhotos(_, _, _)
lightPhotos(st, files, fault) ==
    IF files = <<>> \/ ~st.ok THEN st
    ELSE IF fault.what \in ThumbFaults /\ fault.at = Len(st.photos) + 1
    THEN [st EXCEPT !.ok = FALSE]
    ELSE LET name == cleanName(Head(files))
         IN  lightPhotos([st EXCEPT !.th = @ \cup {name},
                                    !.photos = Append(@, Photo("light", name))],
                         Tail(files), fault)

\* A variant that makes a Photo of every file of the batch, max files included.
processLightMax_allFiles(st, lightFiles, maxFiles, fault) ==
    lightPhotos(moveFiles(moveFiles(st, lightFiles, "light", fault), maxFiles, "max", fault),
                lightFiles \o maxFiles, fault)

processLightMax(st, lightFiles, maxFiles, fault) ==
    lightPhotos(moveFiles(moveFiles(st, lightFiles, "light", fault), maxFiles, "max", fault),
                lightFiles, fault)

\* The flat branch: unique name in the album root, move, thumbnail, Photo.
RECURSIVE processFlat(_, _, _)
processFlat(st, files, fault) ==
    IF files = <<>> \/ ~st.ok THEN st
    ELSE LET file == Head(files)
             safeFilename == sanitizeFilename(FileName(<<>>, file.orig.base, <<>>))
             uniqueFilename == getUniqueFilename(st.d.root, safeFilename)
             moved == [st EXCEPT !.temp = @ \ {file.filename},
                                 !.d.root = @ \cup {uniqueFilename},
                                 !.stored = @ + 1]
         IN  IF file.filename \notin st.temp
                  \/ (fault.what = "move" /\ fault.at = st.stored + 1)
             THEN [st EXCEPT !.ok = FALSE]
             ELSE IF fault.what \in ThumbFaults /\ fault.at = Len(st.photos) + 1
             THEN [moved EXCEPT !.ok = FALSE]
             ELSE processFlat([moved EXCEPT !.th = @ \cup {uniqueFilename},
                                            !.photos = Append(@, Photo("root", uniqueFilename))],
                              Tail(files), fault)

\* The files the flat branch works on.
nodeFlatFiles(files) ==
    IF otherFilesOf(files) # <<>> THEN otherFilesOf(files) ELSE files

nodeBatchHasLightMax(files) == lightFilesOf(files) # <<>> /\ maxFilesOf(files) # <<>>

nodeIngest(files, d, th, fault) ==
    IF nodeBatchHasLightMax(files)
    THEN processLightMax(NodeStart(files, d, th), lightFilesOf(files), maxFilesOf(files), fault)
    ELSE processFlat(NodeStart(files, d, th), nodeFlatFiles(files), fault)

\* A variant that stores the batch's own structure as the album's flag.
nodeAppendFlag_ofBatch(album, hasLightMax) == hasLightMax

\* The hasLightMax flag of an album after an append.
nodeAppendFlag(album, hasLightMax) == IF hasLightMax THEN TRUE ELSE album.hasLightMax

\* A variant that takes the thumbnail of the first new photo every time.
nodeAlbumThumbnail_always(album, newPhotos) ==
    IF newPhotos # <<>> THEN newPhotos[1].thumbnail ELSE album.thumbnail

\* "if (!album.thumbnail && newPhotos.length > 0)".
nodeAlbumThumbnail(album, newPhotos) ==
    IF album.thumbnail = <<>> /\ newPhotos # <<>> THEN newPhotos[1].thumbnail
    ELSE album.thumbnail

WithLightMaxDirs(d) == [d EXCEPT !.lightDir = TRUE, !.maxDir = TRUE]

\* name missing, empty or blank: "!name || name.trim() === ''".
nodeNameMissing(name) == name = <<>> \/ Trim(name) = <<>>

\* A variant that stores the name as it was sent.
nodeCreatedName_raw(name) == name

\* "name: name.trim()".
nodeCreatedName(name) == Trim(name)

\* POST /api/albums
NodeCreateAlbum(name) ==
    /\ backend = "node"
    /\ nextId <= MaxAlbums
    /\ IF nodeNameMissing(name)
       THEN /\ res' = Resp("create", 400, "name", 0)
            /\ UNCHANGED <<albums, disk, nextId>>
       ELSE /\ albums' = Append(albums, Album(nextId, nodeCreatedName(name), FALSE))
            /\ disk' = Put(disk, nextId, WithLightMaxDirs(DirOf(nextId)))
            /\ nextId' = nextId + 1
            /\ res' = [Resp("create", 201, "", nextId)
                         EXCEPT !.wrote = TRUE, !.name = name,
                                !.body = <<Album(nextId, nodeCreatedName(name), FALSE)>>]
    /\ UNCHANGED <<auxVars, clientVars, env, backend, thumbs, deleted>>

\* The name PUT /api/albums/:id stores: "if (name) { ... = name.trim() }".
nodeUpdatedName(old, name) == IF name # <<>> THEN Trim(name) ELSE old

\* PUT /api/albums/:id
NodeUpdateAlbum(id, name) ==
    /\ backend = "node"
    /\ LET albumIndex == findIndex(albums, id)
       IN  IF albumIndex = 0
           THEN /\ res' = Resp("update", 404, "notfound", id)
                /\ UNCHANGED albums
           ELSE /\ albums' = [albums EXCEPT ![albumIndex].name = nodeUpdatedName(@, name)]
                /\ res' = [Resp("update", 200, "", id) EXCEPT !.wrote = TRUE]
    /\ UNCHANGED <<auxVars, clientVars, env, backend, disk, thumbs, nextId, deleted>>

\* A variant that drops the last album instead of the one found.
nodeDeleteSplice_last(as, albumIndex) == SubSeq(as, 1, Len(as) - 1)

\* What DELETE leaves in the store.
nodeDeleteSplice(as, albumIndex) == splice(as, albumIndex)

\* DELETE /api/albums/:id
NodeDeleteAlbum(id) ==
    /\ backend = "node"
    /\ LET albumIndex == findIndex(albums, id)
       IN  IF albumIndex = 0
           THEN /\ res' = Resp("delete", 404, "notfound", id)
                /\ UNCHANGED <<albums, disk, thumbs, deleted>>
           ELSE /\ disk' = Drop(disk, id)
                /\ thumbs' = Drop(thumbs, id)
                /\ albums' = nodeDeleteSplice(albums, albumIndex)
                /\ deleted' = deleted \cup {id}
                /\ res' = [Resp("delete", 200, "", id) EXCEPT !.wrote = TRUE]
    /\ UNCHANGED <<auxVars, clientVars, env, backend, nextId>>

\* GET /api/albums/:id
NodeGetAlbum(id) ==
    /\ backend = "node"
    /\ res' = IF findIndex(albums, id) = 0 THEN Resp("get", 404, "notfound", id)
              ELSE [Resp("get", 200, "", id) EXCEPT !.body = <<albums[findIndex(albums, id)]>>]
    /\ UNCHANGED <<auxVars, clientVars, env, backend, albums, disk, thumbs, nextId, deleted>>

\* GET /api/albums
NodeListAlbums ==
    /\ backend = "node"
    /\ res' = Resp("list", 200, "", 0)
    /\ UNCHANGED <<auxVars, clientVars, env, backend, albums, disk, thumbs, nextId, deleted>>

\* The segments of a path, split at "/".
RECURSIVE SplitPath(_)
SplitPath(s) ==
    IF s = <<>> THEN << <<>> >>
    ELSE IF Head(s) = "/" THEN << <<>> >> \o SplitPath(Tail(s))
    ELSE LET rest == SplitPath(Tail(s))
         IN  << <<Head(s)>> \o rest[1] >> \o Tail(rest)

\* The destination folder of an archive: "Lena <name>" for kind "flat",
\* "Lena <name> - Light - ..." and "Lena <name> - Max - ..." for the two
\* variants, as the path of folders the ZIP entry names spell out.  The first
\* segment carries the "Lena " prefix, the last one the variant's suffix.
ZipFolder(kind, albumName) ==
    LET segs == SplitPath(albumName)
    IN  [i \in DOMAIN segs |-> [text |-> segs[i],
                                kind |-> IF i = Len(segs) THEN kind ELSE ""]]

\* A ZIP is the set of its entries: top is the path of the destination
\* folder, sub the sub-directory below it ("" for none) and file the file
\* name (<<>> for the entry of a sub-directory itself).
ZipFiles(top, sub, names) == { [top |-> top, sub |-> sub, file |-> <<n>>] : n \in names }

ZipTree(top, d) ==
    ZipFiles(top, "", d.root)
      \cup (IF d.lightDir
            THEN {[top |-> top, sub |-> "light", file |-> <<>>]} \cup ZipFiles(top, "light", d.light)
            ELSE {})
      \cup (IF d.maxDir
            THEN {[top |-> top, sub |-> "max", file |-> <<>>]} \cup ZipFiles(top, "max", d.max)
            ELSE {})

\* archive.directory(...) calls of the download handler.
nodeArchive(d, albumName) ==
    IF d.lightDir /\ d.maxDir
    THEN ZipFiles(ZipFolder("light", albumName), "", d.light)
           \cup ZipFiles(ZipFolder("max", albumName), "", d.max)
    ELSE ZipTree(ZipFolder("flat", albumName), d)

\* GET /api/albums/:id/download
NodeDownload(id, zipFails) ==
    /\ backend = "node"
    /\ res' = IF findIndex(albums, id) = 0 THEN Resp("download", 404, "notfound", id)
              ELSE IF zipFails THEN Resp("download", 500, "io", id)
              ELSE [Resp("download", 200, "", id) EXCEPT !.zip = nodeArchive(DirOf(id), albums[findIndex(albums, id)].name)]
    /\ UNCHANGED <<auxVars, clientVars, env, backend, albums, disk, thumbs, nextId, deleted>>

\* What a handler that threw leaves behind, and its 500 response.
NodeThrown(op, id, batch, st) ==
    /\ disk' = Put(disk, id, st.d)
    /\ thumbs' = IF st.th = {} /\ id \notin DOMAIN thumbs THEN thumbs ELSE Put(thumbs, id, st.th)
    /\ res' = [UpResp(op, 500, "io", id, batch) EXCEPT !.stored = st.stored]

\* POST /api/albums/:id/photos
NodeAppendPhotos(id, batch, fault) ==
    /\ backend = "node"
    /\ IF multerReject(batch) # 0
       THEN /\ res' = UpResp("append", multerReject(batch), "validation", id, batch)
            /\ UNCHANGED <<albums, disk, thumbs>>
       ELSE LET albumIndex == findIndex(albums, id)
                files == reqFiles(batch)
                hasLightMax == nodeBatchHasLightMax(files)
            IN  IF albumIndex = 0
                THEN /\ res' = UpResp("append", 404, "notfound", id, batch)
                     /\ UNCHANGED <<albums, disk, thumbs>>
                ELSE \E st \in {nodeIngest(files, WithLightMaxDirs(DirOf(id)), ThumbsOf(id), fault)} :
                     IF ~st.ok
                THEN /\ NodeThrown("append", id, batch, st)
                     /\ UNCHANGED albums
                ELSE /\ disk' = Put(disk, id, st.d)
                     /\ thumbs' = IF st.th = {} /\ id \notin DOMAIN thumbs THEN thumbs
                                  ELSE Put(thumbs, id, st.th)
                     /\ albums' = [albums EXCEPT ![albumIndex] =
                                     [@ EXCEPT !.photos = @ \o st.photos,
                                               !.thumbnail = nodeAlbumThumbnail(albums[albumIndex], st.photos),
                                               !.hasLightMax = nodeAppendFlag(albums[albumIndex], hasLightMax)]]
                     /\ res' = [UpResp("append", 201, "", id, batch)
                                  EXCEPT !.added = Len(st.photos), !.stored = st.stored,
                                         !.flat = ~hasLightMax, !.wrote = TRUE,
                                         !.light = IF hasLightMax
                                                   THEN Len(lightFilesOf(files)) ELSE 0]
    /\ UNCHANGED <<auxVars, clientVars, env, backend, nextId, deleted>>

\* POST /api/upload
NodeBulkUpload(albumName, batch, fault) ==
    /\ backend = "node"
    /\ nextId <= MaxAlbums
    /\ IF multerReject(batch) # 0
       THEN /\ res' = UpResp("upload", multerReject(batch), "validation", 0, batch)
            /\ UNCHANGED <<albums, disk, thumbs, nextId>>
       ELSE IF nodeNameMissing(albumName)
       THEN /\ res' = UpResp("upload", 400, "name", 0, batch)
            /\ UNCHANGED <<albums, disk, thumbs, nextId>>
       ELSE LET files == reqFiles(batch)
                hasLightMax == nodeBatchHasLightMax(files)
            IN  \E st \in {nodeIngest(files, WithLightMaxDirs(EmptyDir), {}, fault)} :
                LET newAlbum == [Album(nextId, Trim(albumName), hasLightMax)
                                   EXCEPT !.photos = st.photos,
                                          !.thumbnail = IF st.photos # <<>>
                                                        THEN st.photos[1].thumbnail ELSE <<>>]
                IN
                /\ nextId' = nextId + 1
                /\ IF ~st.ok
                   THEN /\ NodeThrown("upload", nextId, batch, st)
                        /\ UNCHANGED albums
                   ELSE /\ disk' = Put(disk, nextId, st.d)
                        /\ thumbs' = IF st.th = {} THEN thumbs ELSE Put(thumbs, nextId, st.th)
                        /\ albums' = Append(albums, newAlbum)
                        /\ res' = [UpResp("upload", 201, "", nextId, batch)
                                     EXCEPT !.added = Len(st.photos), !.stored = st.stored,
                                            !.flat = ~hasLightMax, !.wrote = TRUE,
                                         !.light = IF hasLightMax
                                                   THEN Len(lightFilesOf(files)) ELSE 0]
    /\ UNCHANGED <<auxVars, clientVars, env, backend, deleted>>

NodeNext ==
    \/ \E name \in env.names : NodeCreateAlbum(name)
    \/ \E id \in AlbumIds, name \in env.names : NodeUpdateAlbum(id, name)
    \/ \E id \in AlbumIds : NodeDeleteAlbum(id)
    \/ \E id \in AlbumIds : NodeGetAlbum(id)
    \/ NodeListAlbums
    \/ \E id \in AlbumIds, zipFails \in ZipFaults : NodeDownload(id, zipFails)
    \/ \E id \in AlbumIds, batch \in Batches : \E fault \in Faults(batch) :
         NodeAppendPhotos(id, batch, fault)
    \/ \E name \in env.names, batch \in Batches : \E fault \in Faults(batch) :
         NodeBulkUpload(name, batch, fault)

\* ================================================================ PHP
ToLower(segment) ==
    CASE segment = "Light" -> "light"
      [] segment = "LIGHT" -> "light"
      [] segment = "Max" -> "max"
      [] segment = "MAX" -> "max"
      [] OTHER -> segment

\* parse_upload_path: the folder type is the deepest ancestor segment that
\* is "light" or "max" in any letter case, '' when there is none.
RECURSIVE parse_upload_path(_)
parse_upload_path(segments) ==
    IF segments = <<>> THEN ""
    ELSE LET segment == ToLower(segments[Len(segments)])
         IN  IF segment = "light" \/ segment = "max" THEN segment
             ELSE parse_upload_path(SubSeq(segments, 1, Len(segments) - 1))

\* validate_uploaded_file over the files in order: TRUE when one throws.
validate_throws(files) == \E i \in DOMAIN files : files[i].kind # "ok"

\* $groups[type]: the entries of one folder type, each with its sanitised name.
group(files, type) ==
    LET typed == SelectSeq(files, LAMBDA f : parse_upload_path(f.segs) = type)
    IN  [i \in DOMAIN typed |-> sanitize_filename(FileName(<<>>, typed[i].base, <<>>))]

\* The status the router answers when create_thumbnail fails: a
\* RuntimeException for an unsupported type, a TypeError from imagesx() for
\* an image that did not decode.
thumb_fault_status(what) == IF what = "thumbType" THEN 400 ELSE 500

\* The light entries: unique name in light/, move, thumbnail, Photo.
RECURSIVE ingest_light(_, _, _)
ingest_light(st, names, fault) ==
    IF names = <<>> \/ st.err # "" THEN st
    ELSE IF fault.what = "move" /\ fault.at = st.stored + 1
    THEN [st EXCEPT !.err = "io", !.status = 400]
    ELSE LET targetName == get_unique_filename(st.d.light, Head(names))
             moved == [st EXCEPT !.d.light = @ \cup {targetName}, !.stored = @ + 1]
         IN  IF fault.what \in ThumbFaults /\ fault.at = Len(st.photos) + 1
             THEN [moved EXCEPT !.err = "io", !.status = thumb_fault_status(fault.what)]
             ELSE ingest_light([moved EXCEPT !.th = @ \cup {targetName},
                                             !.photos = Append(@, Photo("light", targetName))],
                               Tail(names), fault)

\* The max entries: unique name in max/, move; no Photo.
RECURSIVE ingest_max(_, _, _)
ingest_max(st, names, fault) ==
    IF names = <<>> \/ st.err # "" THEN st
    ELSE IF fault.what = "move" /\ fault.at = st.stored + 1
    THEN [st EXCEPT !.err = "io", !.status = 400]
    ELSE LET targetName == get_unique_filename(st.d.max, Head(names))
         IN  ingest_max([st EXCEPT !.d.max = @ \cup {targetName}, !.stored = @ + 1],
                        Tail(names), fault)

\* Legacy mode: unique name in the album root, move, thumbnail, Photo.
RECURSIVE ingest_flat(_, _, _)
ingest_flat(st, names, fault) ==
    IF names = <<>> \/ st.err # "" THEN st
    ELSE IF fault.what = "move" /\ fault.at = st.stored + 1
    THEN [st EXCEPT !.err = "io", !.status = 400]
    ELSE LET targetName == get_unique_filename(st.d.root, Head(names))
             moved == [st EXCEPT !.d.root = @ \cup {targetName}, !.stored = @ + 1]
         IN  IF fault.what \in ThumbFaults /\ fault.at = Len(st.photos) + 1
             THEN [moved EXCEPT !.err = "io", !.status = thumb_fault_status(fault.what)]
             ELSE ingest_flat([moved EXCEPT !.th = @ \cup {targetName},
                                            !.photos = Append(@, Photo("root", targetName))],
                              Tail(names), fault)

\* The structure check: "if ($requiresStructure && (!$hasLightBatch || !$hasMaxBatch))".
structure_mismatch(requiresStructure, hasLightBatch, hasMaxBatch) ==
    requiresStructure /\ (~hasLightBatch \/ ~hasMaxBatch)

\* The second half of ingest_files_into_album: the writes of the chosen mode.
\* An exception leaves the loop with what was written so far; the flag is
\* set only when the light/max loops ran to their end.
ingest_write(files, d, th, hasLightMax, fault) ==
    LET start == [err |-> "", status |-> 201, d |-> d, th |-> th, photos |-> <<>>,
                  stored |-> 0, flag |-> hasLightMax, flat |-> FALSE, light |-> 0]
        light == group(files, "light")
        max == group(files, "max")
        other == group(files, "")
        useLightMax == (light # <<>> /\ max # <<>>) \/ hasLightMax
        written == IF useLightMax
                   THEN [ingest_max(ingest_light([start EXCEPT !.d = WithLightMaxDirs(@)],
                                                 light, fault),
                                    max, fault)
                           EXCEPT !.flag = TRUE, !.light = Len(light)]
                   ELSE [ingest_flat(start, IF other # <<>> THEN other ELSE light \o max, fault)
                           EXCEPT !.flat = TRUE]
    IN  IF written.err = "" THEN written
        ELSE [written EXCEPT !.photos = <<>>, !.flag = hasLightMax]

Thrown(d, th, hasLightMax, err) ==
    [err |-> err, status |-> 400, d |-> d, th |-> th, photos |-> <<>>, stored |-> 0,
     flag |-> hasLightMax, flat |-> FALSE, light |-> 0]

\* A variant that checks the structure only after the files were written.
ingest_files_check_late(albumId, files, d, th, hasLightMax, fault) ==
    IF validate_throws(files) THEN Thrown(d, th, hasLightMax, "validation")
    ELSE IF structure_mismatch(hasLightMax, group(files, "light") # <<>>, group(files, "max") # <<>>)
    THEN [ingest_write(files, d, th, hasLightMax, fault)
            EXCEPT !.err = "structure", !.status = 400]
    ELSE ingest_write(files, d, th, hasLightMax, fault)

\* ingest_files_into_album.  err is "" when it returns, otherwise the reason
\* of the exception and status the status the router answers it with; d and
\* th are the directories afterwards, flag is $albumMeta['hasLightMax']
\* afterwards.
ingest_files_into_album(albumId, files, d, th, hasLightMax, fault) ==
    IF validate_throws(files) THEN Thrown(d, th, hasLightMax, "validation")
    ELSE IF structure_mismatch(hasLightMax, group(files, "light") # <<>>, group(files, "max") # <<>>)
    THEN Thrown(d, th, hasLightMax, "structure")
    ELSE ingest_write(files, d, th, hasLightMax, fault)

\* "if (!$album['thumbnail'] && !empty($album['photos']))".
php_album_thumbnail(thumbnail, photos) ==
    IF thumbnail = <<>> /\ photos # <<>> THEN photos[1].thumbnail ELSE thumbnail

PutThumbs(id, th) == IF th = {} /\ id \notin DOMAIN thumbs THEN thumbs ELSE Put(thumbs, id, th)

\* handle_create_album
handle_create_album(rawName) ==
    /\ backend = "php"
    /\ nextId <= MaxAlbums
    /\ LET name == Trim(rawName)
       IN  IF name = <<>>
           THEN /\ res' = Resp("create", 400, "name", 0)
                /\ UNCHANGED <<albums, disk, nextId>>
           ELSE /\ albums' = Append(albums, Album(nextId, name, FALSE))
                /\ disk' = Put(disk, nextId, WithLightMaxDirs(DirOf(nextId)))
                /\ nextId' = nextId + 1
                /\ res' = [Resp("create", 201, "", nextId)
                             EXCEPT !.wrote = TRUE, !.name = rawName,
                                    !.body = <<Album(nextId, name, FALSE)>>]
    /\ UNCHANGED <<auxVars, clientVars, env, backend, thumbs, deleted>>

\* The name handle_update_album stores.
php_updated_name(old, rawName) == IF Trim(rawName) # <<>> THEN Trim(rawName) ELSE old

\* handle_update_album
handle_update_album(albumId, rawName) ==
    /\ backend = "php"
    /\ LET index == findIndex(albums, albumId)
       IN  IF index = 0
           THEN /\ res' = Resp("update", 404, "notfound", albumId)
                /\ UNCHANGED albums
           ELSE /\ albums' = [albums EXCEPT ![index].name = php_updated_name(@, rawName)]
                /\ res' = [Resp("update", 200, "", albumId) EXCEPT !.wrote = TRUE]
    /\ UNCHANGED <<auxVars, clientVars, env, backend, disk, thumbs, nextId, deleted>>

\* What handle_delete_album leaves in the store.
php_delete_splice(as, index) == splice(as, index)

\* handle_delete_album
handle_delete_album(albumId) ==
    /\ backend = "php"
    /\ LET index == findIndex(albums, albumId)
       IN  IF index = 0
           THEN /\ res' = Resp("delete", 404, "notfound", albumId)
                /\ UNCHANGED <<albums, disk, thumbs, deleted>>
           ELSE /\ disk' = Drop(disk, albumId)
                /\ thumbs' = Drop(thumbs, albumId)
                /\ albums' = php_delete_splice(albums, index)
                /\ deleted' = deleted \cup {albumId}
                /\ res' = [Resp("delete", 200, "", albumId) EXCEPT !.wrote = TRUE]
    /\ UNCHANGED <<auxVars, clientVars, env, backend, nextId>>

\* handle_get_album
handle_get_album(albumId) ==
    /\ backend = "php"
    /\ res' = IF findIndex(albums, albumId) = 0 THEN Resp("get", 404, "notfound", albumId)
              ELSE [Resp("get", 200, "", albumId)
                      EXCEPT !.body = <<albums[findIndex(albums, albumId)]>>]
    /\ UNCHANGED <<auxVars, clientVars, env, backend, albums, disk, thumbs, nextId, deleted>>

\* handle_list_albums
handle_list_albums ==
    /\ backend = "php"
    /\ res' = Resp("list", 200, "", 0)
    /\ UNCHANGED <<auxVars, clientVars, env, backend, albums, disk, thumbs, nextId, deleted>>

\* The builder handle_album_zip passes to stream_zip; add_folder_to_zip adds
\* what is below a folder, never an entry for the folder itself.
php_archive(d, albumName) ==
    IF d.lightDir /\ d.maxDir
    THEN ZipFiles(ZipFolder("light", albumName), "", d.light)
           \cup ZipFiles(ZipFolder("max", albumName), "", d.max)
    ELSE ZipTree(ZipFolder("flat", albumName), d)

\* handle_album_zip
handle_album_zip(albumId, zipFails) ==
    /\ backend = "php"
    /\ res' = IF findIndex(albums, albumId) = 0 THEN Resp("download", 404, "notfound", albumId)
              ELSE IF zipFails THEN Resp("download", 400, "io", albumId)
              ELSE [Resp("download", 200, "", albumId)
                      EXCEPT !.zip = php_archive(DirOf(albumId),
                                                 albums[findIndex(albums, albumId)].name)]
    /\ UNCHANGED <<auxVars, clientVars, env, backend, albums, disk, thumbs, nextId, deleted>>

\* handle_append_photos
handle_append_photos(albumId, files, fault) ==
    /\ backend = "php"
    /\ LET index == findIndex(albums, albumId)
       IN  IF files = <<>>
           THEN /\ res' = UpResp("append", 400, "nofiles", albumId, files)
                /\ UNCHANGED <<albums, disk, thumbs>>
           ELSE IF index = 0
           THEN /\ res' = UpResp("append", 404, "notfound", albumId, files)
                /\ UNCHANGED <<albums, disk, thumbs>>
           ELSE \E in \in {ingest_files_into_album(albumId, files, DirOf(albumId),
                                                   ThumbsOf(albumId), albums[index].hasLightMax,
                                                   fault)} :
                LET photos == albums[index].photos \o in.photos IN
                IF in.err # ""
           THEN /\ res' = UpResp("append", in.status, in.err, albumId, files)
                /\ disk' = Put(disk, albumId, in.d)
                /\ thumbs' = PutThumbs(albumId, in.th)
                /\ UNCHANGED albums
           ELSE /\ disk' = Put(disk, albumId, in.d)
                /\ thumbs' = PutThumbs(albumId, in.th)
                /\ albums' = [albums EXCEPT ![index] =
                                [@ EXCEPT !.photos = photos,
                                          !.thumbnail = php_album_thumbnail(@, photos),
                                          !.hasLightMax = in.flag]]
                /\ res' = [UpResp("append", 201, "", albumId, files)
                             EXCEPT !.added = Len(in.photos), !.stored = in.stored,
                                    !.flat = in.flat, !.light = in.light, !.wrote = TRUE]
    /\ UNCHANGED <<auxVars, clientVars, env, backend, nextId, deleted>>

\* handle_bulk_upload
handle_bulk_upload(rawName, files, fault) ==
    /\ backend = "php"
    /\ nextId <= MaxAlbums
    /\ LET albumName == Trim(rawName)
       IN  IF albumName = <<>>
           THEN /\ res' = UpResp("upload", 400, "name", 0, files)
                /\ UNCHANGED <<albums, disk, thumbs, nextId>>
           ELSE IF files = <<>>
           THEN /\ res' = UpResp("upload", 400, "nofiles", 0, files)
                /\ UNCHANGED <<albums, disk, thumbs, nextId>>
           ELSE \E in \in {ingest_files_into_album(nextId, files, EmptyDir, {}, FALSE, fault)} :
                LET album == [Album(nextId, albumName, in.flag)
                                EXCEPT !.photos = in.photos,
                                       !.thumbnail = php_album_thumbnail(<<>>, in.photos)] IN
                IF in.err # ""
           THEN /\ res' = UpResp("upload", in.status, in.err, nextId, files)
                /\ disk' = Put(disk, nextId, in.d)
                /\ thumbs' = PutThumbs(nextId, in.th)
                /\ nextId' = nextId + 1
                /\ UNCHANGED albums
           ELSE /\ disk' = Put(disk, nextId, in.d)
                /\ thumbs' = PutThumbs(nextId, in.th)
                /\ albums' = Append(albums, album)
                /\ nextId' = nextId + 1
                /\ res' = [UpResp("upload", 201, "", nextId, files)
                             EXCEPT !.added = Len(in.photos), !.stored = in.stored,
                                    !.flat = in.flat, !.light = in.light, !.wrote = TRUE]
    /\ UNCHANGED <<auxVars, clientVars, env, backend, deleted>>

PhpNext ==
    \/ \E name \in env.names : handle_create_album(name)
    \/ \E id \in AlbumIds, name \in env.names : handle_update_album(id, name)
    \/ \E id \in AlbumIds : handle_delete_album(id)
    \/ \E id \in AlbumIds : handle_get_album(id)
    \/ handle_list_albums
    \/ \E id \in AlbumIds, zipFails \in ZipFaults : handle_album_zip(id, zipFails)
    \/ \E id \in AlbumIds, batch \in Batches : \E fault \in Faults(batch) :
         handle_append_photos(id, batch, fault)
    \/ \E name \in env.names, batch \in Batches : \E fault \in Faults(batch) :
         handle_bulk_upload(name, batch, fault)

Next == NodeNext \/ PhpNext

Spec == Init /\ [][Next]_vars

PathSpec == PathInit /\ [][Next]_vars

\* The same program on a disk and with libraries that can fail.
FaultInit == env = [names |-> {<<" ", "W">>}, files |-> ValidFileInputs, faults |-> TRUE] /\ Start

FaultSpec == FaultInit /\ [][Next]_vars

\* ================================================================ client
\* The web client: src/src/data/mockData.ts (API calls), UploadZone.tsx and
\* the pages of src/src/utils/downloader.ts.  The server answers are the
\* client's inputs: every request can succeed or fail.

\* The server variables while only the client is looked at.
ServerIdle ==
    /\ env = [names |-> {}, files |-> {}, faults |-> FALSE]
    /\ backend = "node"
    /\ albums = <<>>
    /\ disk = <<>>
    /\ thumbs = <<>>
    /\ nextId = 1
    /\ deleted = {}
    /\ res = Resp("none", 0, "", 0)

\* ------------------------------------------------------------ uploadAlbum
BATCH_SIZE == 30

\* An upload of n files: the files are told apart by their position.
FileList(n) == [i \in 1 .. n |-> i]

\* Array.prototype.slice(start, end) for 0 <= start <= end.
slice(arr, start, end) ==
    LET stop == IF end < Len(arr) THEN end ELSE Len(arr)
    IN IF start >= stop THEN <<>> ELSE SubSeq(arr, start + 1, stop)

firstBatch(files) == slice(files, 0, BATCH_SIZE)

remainingFiles_all(files) == slice(files, 0, Len(files))

remainingFiles(files) == slice(files, BATCH_SIZE, Len(files))

\* One POST of uploadBatch: to /api/upload, or to /api/albums/<id>/photos.
Request(to, albumId, files) == [to |-> to, albumId |-> albumId, files |-> files]

\* uploadAlbum(albumName, files) up to its first await.
uploadAlbumCall(files) ==
    [pc |-> IF Len(files) <= BATCH_SIZE THEN "single" ELSE "create",
     files |-> files,
     albumId |-> 0,
     i |-> 0,
     totalUploaded |-> 0,
     sent |-> IF Len(files) <= BATCH_SIZE
              THEN << Request("upload", 0, files) >>
              ELSE << Request("upload", 0, firstBatch(files)) >>]

\* The loop 'for (i = 0; i < remainingFiles.length; i += BATCH_SIZE)' at its
\* test: the next batch is sent, or the final album is fetched.
uploadLoop(u) ==
    IF u.i < Len(remainingFiles(u.files))
    THEN [u EXCEPT !.pc = "batch",
                   !.sent = Append(@, Request("photos", u.albumId,
                                 slice(remainingFiles(u.files), u.i, u.i + BATCH_SIZE)))]
    ELSE [u EXCEPT !.pc = "final"]

\* The XHR of the running uploadBatch ends: 2xx resolves, anything else
\* (status, network error, timeout) rejects and uploadAlbum throws.
afterBatch(u, ok, id) ==
    IF ~ok THEN [u EXCEPT !.pc = "rejected"]
    ELSE IF u.pc = "single" THEN [u EXCEPT !.pc = "resolved"]
    ELSE IF u.pc = "create"
         THEN uploadLoop([u EXCEPT !.albumId = id,
                                   !.totalUploaded = Len(firstBatch(u.files))])
    ELSE uploadLoop([u EXCEPT
             !.totalUploaded = @ + Len(u.sent[Len(u.sent)].files),
             !.i = @ + BATCH_SIZE])

uploadBatchSettles(ok, id) ==
    /\ upload.pc \in {"single", "create", "batch"}
    /\ upload' = afterBatch(upload, ok, id)
    /\ UNCHANGED <<auxVars, serverVars, storage, gallery, admin, zone>>

\* getAlbumById(albumId) after the last batch.
getAlbumByIdSettles(ok) ==
    /\ upload.pc = "final"
    /\ upload' = [upload EXCEPT !.pc = IF ok THEN "resolved" ELSE "rejected"]
    /\ UNCHANGED <<auxVars, serverVars, storage, gallery, admin, zone>>

UploadSteps ==
    \/ \E ok \in BOOLEAN, id \in AlbumIds : uploadBatchSettles(ok, id)
    \/ \E ok \in BOOLEAN : getAlbumByIdSettles(ok)

\* A caller of uploadAlbum that passes any list of up to MaxFiles files.
CallUploadAlbum(n) ==
    /\ upload.pc \in {"idle", "resolved", "rejected"}
    /\ upload' = uploadAlbumCall(FileList(n))
    /\ UNCHANGED <<auxVars, serverVars, storage, gallery, admin, zone>>

UploadInit ==
    /\ ServerIdle
    /\ NoAux
    /\ storage = "none"
    /\ gallery = Unmounted
    /\ admin = Unmounted
    /\ zone = Unmounted
    /\ upload = [pc |-> "idle", files |-> <<>>, albumId |-> 0, i |-> 0,
                 totalUploaded |-> 0, sent |-> <<>>]

UploadNext ==
    \/ \E n \in 0 .. MaxFiles : CallUploadAlbum(n)
    \/ UploadSteps

UploadSpec == UploadInit /\ [][UploadNext]_vars

\* ------------------------------------------------------------ GalleryPage
PASSWORD_OWNER == "lena2025!"

PASSWORD_GUEST == "lenka2025"

\* What a visitor types: each secret, nothing, and a near miss.
PasswordInputs == { PASSWORD_OWNER, PASSWORD_GUEST, "", "lena2025" }

\* sessionStorage 'gallery_role' when a page is opened: absent ("none") or
\* what an earlier login in this tab stored.
StorageInputs == { "none", "owner", "guest" }

\* useState initialiser of userRole; "none" stands for null.
savedRole(saved) == IF saved \in {"owner", "guest"} THEN saved ELSE "none"

\* The bundled demo albums, by id.
mockAlbums == << "album-1", "album-2", "album-3", "album-4", "album-5" >>

\* Album lists the backend answers getAlbums with, by id.
AlbumLists ==
    { s \in SeqsUpTo(AlbumIds, MaxAlbums) : \A i, j \in DOMAIN s : i # j => s[i] # s[j] }

\* getAlbums: a list, a rejection, or a body the transformation throws on.
GetAlbumsOutcomes == { "reject", "malformed" }

canDownload_anyRole(userRole) == userRole # "none"

canDownload(userRole) == userRole = "owner"

ListIds(list) == { list[i] : i \in DOMAIN list }

\* GalleryPage after its first render: fetchAlbums() waits for checkHealth.
GalleryMount(saved) ==
    [pc |-> "health",
     userRole |-> savedRole(saved),
     passwordInput |-> "",
     passwordError |-> FALSE,
     isLoading |-> TRUE,
     albums |-> <<>>,
     selectedAlbums |-> {},
     isDownloading |-> FALSE,
     backendAvailable |-> "unset",
     thrown |-> FALSE,
     downloads |-> {}]

\* Which of the three returns of the component renders.
View(g) ==
    IF g.userRole = "none" THEN "password"
    ELSE IF g.isLoading THEN "loading"
    ELSE "gallery"

\* fetchAlbums: the catch branch and the finally clause.
fetchFailed_keep(g) ==
    [g EXCEPT !.pc = "done", !.thrown = TRUE, !.isLoading = FALSE]

fetchFailed(g) ==
    [g EXCEPT !.pc = "done", !.thrown = TRUE, !.albums = mockAlbums, !.isLoading = FALSE]

\* checkHealth resolves: it catches every error itself and answers false.
checkHealthSettles(ok) ==
    /\ gallery.pc = "health"
    /\ gallery' =
         IF ok THEN [gallery EXCEPT !.pc = "albums", !.backendAvailable = "yes"]
         ELSE [gallery EXCEPT !.pc = "done", !.backendAvailable = "no",
                              !.albums = mockAlbums, !.isLoading = FALSE]
    /\ UNCHANGED <<auxVars, serverVars, storage, admin, zone, upload>>

getAlbumsSettles(outcome) ==
    /\ gallery.pc = "albums"
    /\ gallery' =
         IF outcome \in GetAlbumsOutcomes THEN fetchFailed(gallery)
         ELSE [gallery EXCEPT !.pc = "done", !.albums = outcome, !.isLoading = FALSE]
    /\ UNCHANGED <<auxVars, serverVars, storage, admin, zone, upload>>

\* The password field's onChange.
setPasswordInput(value) ==
    /\ View(gallery) = "password"
    /\ gallery' = [gallery EXCEPT !.passwordInput = value, !.passwordError = FALSE]
    /\ UNCHANGED <<auxVars, serverVars, storage, admin, zone, upload>>

handleLogin ==
    /\ View(gallery) = "password"
    /\ IF gallery.passwordInput = PASSWORD_OWNER
       THEN /\ gallery' = [gallery EXCEPT !.userRole = "owner", !.passwordError = FALSE]
            /\ storage' = "owner"
       ELSE IF gallery.passwordInput = PASSWORD_GUEST
       THEN /\ gallery' = [gallery EXCEPT !.userRole = "guest", !.passwordError = FALSE]
            /\ storage' = "guest"
       ELSE /\ gallery' = [gallery EXCEPT !.passwordError = TRUE]
            /\ UNCHANGED storage
    /\ UNCHANGED <<auxVars, serverVars, admin, zone, upload>>

handleLogout ==
    /\ View(gallery) = "gallery"
    /\ gallery' = [gallery EXCEPT !.userRole = "none", !.passwordInput = ""]
    /\ storage' = "none"
    /\ UNCHANGED <<auxVars, serverVars, admin, zone, upload>>

\* The checkbox on an album card, rendered for canDownload only.
toggleAlbumSelection(albumId) ==
    /\ View(gallery) = "gallery"
    /\ canDownload(gallery.userRole)
    /\ albumId \in ListIds(gallery.albums)
    /\ gallery' = [gallery EXCEPT !.selectedAlbums =
                      IF albumId \in @ THEN @ \ {albumId} ELSE @ \cup {albumId}]
    /\ UNCHANGED <<auxVars, serverVars, storage, admin, zone, upload>>

\* The first download button: rendered for canDownload, disabled while a
\* download runs or nothing is selected.
handlePrimaryDownload ==
    /\ View(gallery) = "gallery"
    /\ canDownload(gallery.userRole)
    /\ ~gallery.isDownloading
    /\ gallery.selectedAlbums # {}
    /\ LET selectedCount == Cardinality(gallery.selectedAlbums)
           found == gallery.selectedAlbums \cap ListIds(gallery.albums)
       IN IF selectedCount = 1 /\ found = {}
          THEN UNCHANGED gallery
          ELSE gallery' = [gallery EXCEPT
                   !.isDownloading = TRUE,
                   !.downloads = @ \cup {[kind |-> IF selectedCount = 1 THEN "album" ELSE "selected",
                                          role |-> gallery.userRole]}]
    /\ UNCHANGED <<auxVars, serverVars, storage, admin, zone, upload>>

\* The second download button: disabled while a download runs or there are
\* no albums.
handleDownloadAll ==
    /\ View(gallery) = "gallery"
    /\ canDownload(gallery.userRole)
    /\ ~gallery.isDownloading
    /\ gallery.albums # <<>>
    /\ gallery' = [gallery EXCEPT
           !.isDownloading = TRUE,
           !.downloads = @ \cup {[kind |-> "all", role |-> gallery.userRole]}]
    /\ UNCHANGED <<auxVars, serverVars, storage, admin, zone, upload>>

\* The awaited download ends, well or badly: the finally clause.
downloadSettles ==
    /\ gallery.pc # "unmounted"
    /\ gallery.isDownloading
    /\ gallery' = [gallery EXCEPT !.isDownloading = FALSE]
    /\ UNCHANGED <<auxVars, serverVars, storage, admin, zone, upload>>

GalleryInit ==
    /\ ServerIdle
    /\ NoAux
    /\ storage \in StorageInputs
    /\ gallery = GalleryMount(storage)
    /\ admin = Unmounted
    /\ zone = Unmounted
    /\ upload = Unmounted

GalleryNext ==
    \/ \E ok \in BOOLEAN : checkHealthSettles(ok)
    \/ \E outcome \in GetAlbumsOutcomes \cup AlbumLists : getAlbumsSettles(outcome)
    \/ \E value \in PasswordInputs : setPasswordInput(value)
    \/ handleLogin
    \/ handleLogout
    \/ \E albumId \in ListIds(gallery.albums) : toggleAlbumSelection(albumId)
    \/ handlePrimaryDownload
    \/ handleDownloadAll
    \/ downloadSettles

GallerySpec == GalleryInit /\ [][GalleryNext]_vars

\* -------------------------------------------------------------- AdminPage
\* Folders a user drops or picks, by their number of image files: one that
\* fits a single request and one that needs a second batch.
FolderSizes == { 1, BATCH_SIZE + 1 }

UploadIdle ==
    [pc |-> "idle", files |-> <<>>, albumId |-> 0, i |-> 0,
     totalUploaded |-> 0, sent |-> <<>>]

\* fetchAlbums() up to its first await.
startFetch(a) == [a EXCEPT !.isLoading = TRUE, !.health = @ + 1]

\* Requests of the page that have not been answered yet.
InFlight(a) == a.health + a.fetching + a.deleting

\* AdminPage after its first render: fetchAlbums() waits for checkHealth.
AdminMount ==
    [pc |-> "mounted",
     showUploadZone |-> FALSE,
     albums |-> <<>>,
     isLoading |-> TRUE,
     isOnline |-> TRUE,
     health |-> 1,
     fetching |-> 0,
     deleting |-> 0,
     deletes |-> {},
     ops |-> {}]

\* A management request sent to the backend by a session whose stored role
\* is 'storage'.
Managed(a, kind) == [a EXCEPT !.ops = @ \cup {[kind |-> kind, role |-> storage]}]

\* The refresh button of the header.
adminFetchAlbums ==
    /\ admin.pc = "mounted"
    /\ ~admin.showUploadZone
    /\ InFlight(admin) < MaxFetches
    /\ admin' = startFetch(admin)
    /\ UNCHANGED <<auxVars, serverVars, storage, gallery, zone, upload>>

adminCheckHealthSettles(ok) ==
    /\ admin.pc = "mounted"
    /\ admin.health > 0
    /\ admin' =
         IF ok THEN [admin EXCEPT !.health = @ - 1, !.isOnline = TRUE, !.fetching = @ + 1]
         ELSE [admin EXCEPT !.health = @ - 1, !.isOnline = FALSE,
                            !.albums = mockAlbums, !.isLoading = FALSE]
    /\ UNCHANGED <<auxVars, serverVars, storage, gallery, zone, upload>>

adminGetAlbumsSettles(outcome) ==
    /\ admin.pc = "mounted"
    /\ admin.fetching > 0
    /\ admin' = [admin EXCEPT
           !.fetching = @ - 1,
           !.albums = IF outcome \in GetAlbumsOutcomes THEN mockAlbums ELSE outcome,
           !.isLoading = FALSE]
    /\ UNCHANGED <<auxVars, serverVars, storage, gallery, zone, upload>>

\* The delete button of an album card, rendered while online and loaded.
handleDeleteAlbum(albumId, confirmed) ==
    /\ admin.pc = "mounted"
    /\ ~admin.showUploadZone
    /\ admin.isOnline
    /\ ~admin.isLoading
    /\ albumId \in ListIds(admin.albums)
    /\ InFlight(admin) < MaxFetches
    /\ admin' = IF confirmed
                THEN Managed([admin EXCEPT !.deleting = @ + 1], "delete")
                ELSE admin
    /\ UNCHANGED <<auxVars, serverVars, storage, gallery, zone, upload>>

\* deleteAlbum settles: the list is fetched again, or the catch alerts.
deleteAlbumSettles(ok) ==
    /\ admin.pc = "mounted"
    /\ admin.deleting > 0
    /\ admin' =
         IF ok
         THEN startFetch([admin EXCEPT !.deleting = @ - 1,
                             !.deletes = @ \cup {[outcome |-> "ok", alert |-> FALSE]}])
         ELSE [admin EXCEPT !.deleting = @ - 1,
                  !.deletes = @ \cup {[outcome |-> "failed", alert |-> TRUE]}]
    /\ UNCHANGED <<auxVars, serverVars, storage, gallery, zone, upload>>

\* ------------------------------------------------------------- UploadZone
\* A fresh UploadZone.
ZoneMount ==
    [pc |-> "idle",
     uploadedFolders |-> <<>>,
     isUploading |-> FALSE,
     uploadStatus |-> "idle",
     run |-> [folders |-> <<>>, useBackend |-> TRUE, completedFolders |-> 0, accepted |-> 0],
     timer |-> FALSE]

\* The "Nowy Upload" button, disabled while offline.  One UploadZone is
\* followed at a time: a new one is opened when the run of the one before
\* it is over.
openUploadZone ==
    /\ admin.pc = "mounted"
    /\ ~admin.showUploadZone
    /\ admin.isOnline
    /\ zone.pc \in {"unmounted", "idle"}
    /\ admin' = [admin EXCEPT !.showUploadZone = TRUE]
    /\ zone' = ZoneMount
    /\ UNCHANGED <<auxVars, serverVars, storage, gallery, upload>>

onClose ==
    /\ admin.pc = "mounted"
    /\ admin.showUploadZone
    /\ admin' = [admin EXCEPT !.showUploadZone = FALSE]
    /\ UNCHANGED <<auxVars, serverVars, storage, gallery, zone, upload>>

\* handleDrop and handleFolderSelect: a folder with image files is added.
addFolder(size) ==
    /\ admin.pc = "mounted"
    /\ admin.showUploadZone
    /\ Len(zone.uploadedFolders) < MaxFolders
    /\ zone' = [zone EXCEPT !.uploadedFolders = Append(@, size)]
    /\ UNCHANGED <<auxVars, serverVars, storage, gallery, admin, upload>>

removeFolder(index) ==
    /\ admin.pc = "mounted"
    /\ admin.showUploadZone
    /\ index \in DOMAIN zone.uploadedFolders
    /\ zone' = [zone EXCEPT !.uploadedFolders =
                   SubSeq(@, 1, index - 1) \o SubSeq(@, index + 1, Len(@))]
    /\ UNCHANGED <<auxVars, serverVars, storage, gallery, admin, upload>>

\* The body of the loop over the folders, up to its await.
uploadFolder(z) ==
    [z EXCEPT !.pc = IF z.run.useBackend THEN "uploadAlbum" ELSE "mock"]

\* The end of handleUpload's try block and its finally clause.
uploadSucceeded(z) ==
    [z EXCEPT !.pc = "idle", !.uploadStatus = "success", !.isUploading = FALSE,
              !.timer = TRUE]

\* The upload button: rendered when folders are listed, disabled while
\* uploading or after a success.  useBackend is the page's isOnline of the
\* render the click happens in.
handleUpload ==
    /\ admin.pc = "mounted"
    /\ admin.showUploadZone
    /\ zone.pc = "idle"
    /\ zone.uploadedFolders # <<>>
    /\ ~zone.isUploading
    /\ zone.uploadStatus # "success"
    /\ zone' = uploadFolder([zone EXCEPT
                   !.isUploading = TRUE,
                   !.uploadStatus = "idle",
                   !.run = [folders |-> zone.uploadedFolders,
                            useBackend |-> admin.isOnline,
                            completedFolders |-> 0,
                            accepted |-> 0]])
    /\ IF admin.isOnline
       THEN /\ upload' = uploadAlbumCall(FileList(zone.uploadedFolders[1]))
            /\ admin' = Managed(admin, "upload")
       ELSE UNCHANGED <<upload, admin>>
    /\ UNCHANGED <<auxVars, serverVars, storage, gallery>>

\* onUpload of the page: the zone is closed and the list fetched again.
onUpload(a) == startFetch([a EXCEPT !.showUploadZone = FALSE])

\* The awaited uploadAlbum of the current folder has returned or thrown.
uploadAlbumReturns ==
    /\ zone.pc = "uploadAlbum"
    /\ upload.pc \in {"resolved", "rejected"}
    /\ IF upload.pc = "rejected"
       THEN /\ zone' = [zone EXCEPT !.pc = "idle", !.uploadStatus = "error",
                                    !.isUploading = FALSE]
            /\ upload' = UploadIdle
            /\ UNCHANGED admin
       ELSE LET done == [zone EXCEPT !.run.completedFolders = @ + 1,
                                     !.run.accepted = @ + 1]
            IN IF done.run.completedFolders < Len(done.run.folders)
               THEN /\ zone' = uploadFolder(done)
                    /\ upload' = uploadAlbumCall(
                           FileList(done.run.folders[done.run.completedFolders + 1]))
                    /\ admin' = Managed(admin, "upload")
               ELSE /\ InFlight(admin) < MaxFetches
                    /\ zone' = uploadSucceeded(done)
                    /\ upload' = UploadIdle
                    /\ admin' = onUpload(admin)
    /\ UNCHANGED <<auxVars, serverVars, storage, gallery>>

\* The 500 ms of the simulated upload of the current folder are over.
mockDelayElapses ==
    /\ zone.pc = "mock"
    /\ LET done == [zone EXCEPT !.run.completedFolders = @ + 1]
       IN IF done.run.completedFolders < Len(done.run.folders)
          THEN /\ zone' = uploadFolder(done)
               /\ UNCHANGED admin
          ELSE /\ InFlight(admin) < MaxFetches
               /\ zone' = uploadSucceeded(done)
               /\ admin' = onUpload(admin)
    /\ UNCHANGED <<auxVars, serverVars, storage, gallery, upload>>

\* The timer set after a success: the list and the status are cleared.
clearAfterSuccess ==
    /\ zone.pc # "unmounted"
    /\ zone.timer
    /\ zone' = [zone EXCEPT !.uploadedFolders = <<>>, !.uploadStatus = "idle",
                            !.timer = FALSE]
    /\ UNCHANGED <<auxVars, serverVars, storage, gallery, admin, upload>>

AdminInit ==
    /\ ServerIdle
    /\ NoAux
    /\ storage \in StorageInputs
    /\ gallery = Unmounted
    /\ admin = AdminMount
    /\ zone = Unmounted
    /\ upload = UploadIdle

AdminNext ==
    \/ adminFetchAlbums
    \/ \E ok \in BOOLEAN : adminCheckHealthSettles(ok)
    \/ \E outcome \in GetAlbumsOutcomes \cup AlbumLists : adminGetAlbumsSettles(outcome)
    \/ \E albumId \in ListIds(admin.albums), confirmed \in BOOLEAN :
         handleDeleteAlbum(albumId, confirmed)
    \/ \E ok \in BOOLEAN : deleteAlbumSettles(ok)
    \/ openUploadZone
    \/ onClose
    \/ \E size \in FolderSizes : addFolder(size)
    \/ \E index \in 1 .. MaxFolders : removeFolder(index)
    \/ handleUpload
    \/ uploadAlbumReturns
    \/ mockDelayElapses
    \/ clearAfterSuccess
    \/ UploadSteps

AdminSpec == AdminInit /\ [][AdminNext]_vars

\* ------------------------------------------------- UploadZone on its own
\* The component rendered without the optional onUpload and onClose props:
\* nothing closes it after a success.  useBackend is the prop of that name.
ZoneHost(useBackend) ==
    [AdminMount EXCEPT !.showUploadZone = TRUE, !.isLoading = FALSE,
                       !.isOnline = useBackend, !.health = 0]

\* The awaited upload of the current folder (uploadAlbum, or the simulated
\* delay) is over; 'if (onUpload)' finds no callback after the last folder.
awaitReturns ==
    /\ zone.pc \in {"uploadAlbum", "mock"}
    /\ zone.pc = "uploadAlbum" => upload.pc \in {"resolved", "rejected"}
    /\ IF zone.pc = "uploadAlbum" /\ upload.pc = "rejected"
       THEN /\ zone' = [zone EXCEPT !.pc = "idle", !.uploadStatus = "error",
                                    !.isUploading = FALSE]
            /\ upload' = UploadIdle
            /\ UNCHANGED admin
       ELSE LET done == [zone EXCEPT !.run.completedFolders = @ + 1,
                                     !.run.accepted = IF zone.pc = "uploadAlbum"
                                                      THEN @ + 1 ELSE @]
            IN IF done.run.completedFolders < Len(done.run.folders)
               THEN /\ zone' = uploadFolder(done)
                    /\ IF done.run.useBackend
                       THEN /\ upload' = uploadAlbumCall(
                                  FileList(done.run.folders[done.run.completedFolders + 1]))
                            /\ admin' = Managed(admin, "upload")
                       ELSE UNCHANGED <<upload, admin>>
               ELSE /\ zone' = uploadSucceeded(done)
                    /\ upload' = UploadIdle
                    /\ UNCHANGED admin
    /\ UNCHANGED <<auxVars, serverVars, storage, gallery>>

ZoneInit ==
    /\ ServerIdle
    /\ NoAux
    /\ storage = "none"
    /\ gallery = Unmounted
    /\ admin \in { ZoneHost(useBackend) : useBackend \in BOOLEAN }
    /\ zone = ZoneMount
    /\ upload = UploadIdle

ZoneNext ==
    \/ \E size \in FolderSizes : addFolder(size)
    \/ \E index \in 1 .. MaxFolders : removeFolder(index)
    \/ handleUpload
    \/ UploadSteps
    \/ awaitReturns
    \/ clearAfterSuccess

ZoneSpec == ZoneInit /\ [][ZoneNext]_vars

\* ============================================================ concurrency
\* The same handlers while several requests are served at once.  A handler
\* reads the whole store document when it starts, works on the file system,
\* and writes the whole document back when it ends; neither server takes a
\* lock, so the requests interleave between the read and the write.

\* The one file every concurrent upload carries: a valid file without folder.
FlatBatch == << [segs |-> <<>>, base |-> <<"a">>, kind |-> "ok"] >>

ConcOps == { "upload", "append", "update", "delete" }

FreeSlot == [pc |-> "free"]

Slots == 1 .. MaxInflight

\* The photos a handler adds and the flag it sets for the batch, with the
\* album directory and the thumbnails after its file work.
concIngest(id, album) ==
    IF backend = "node"
    THEN LET st == nodeIngest(reqFiles(FlatBatch), WithLightMaxDirs(DirOf(id)),
                              ThumbsOf(id), NoFault)
         IN  [photos |-> st.photos, d |-> st.d, th |-> st.th,
              flag |-> nodeAppendFlag(album, nodeBatchHasLightMax(reqFiles(FlatBatch)))]
    ELSE LET in == ingest_files_into_album(id, FlatBatch, DirOf(id), ThumbsOf(id),
                                           album.hasLightMax, NoFault)
         IN  [photos |-> in.photos, d |-> in.d, th |-> in.th, flag |-> in.flag]

\* The handler of request 'op' on album 'id' from its start to its last
\* await before writeAlbumsData / write_albums_data: the document is read,
\* an unknown album is answered with 404, the files are stored or removed.
Begin(slot, op, id) ==
    /\ inflight.reqs[slot] = FreeSlot
    /\ inflight.begun < MaxRequests
    /\ LET data == albums
           index == findIndex(data, id)
           req == [pc |-> "write", op |-> op, id |-> id, data |-> data,
                   photos |-> <<>>, flag |-> FALSE]
       IN  IF op = "upload"
           THEN /\ nextId <= MaxAlbums
                /\ id = nextId
                /\ Free >= 1
                /\ \E in \in {concIngest(id, Album(id, <<"W">>, FALSE))} :
                     /\ disk' = Put(disk, id, in.d)
                     /\ thumbs' = PutThumbs(id, in.th)
                     /\ inflight' = [inflight EXCEPT !.begun = @ + 1, !.reqs[slot] =
                                        [req EXCEPT !.photos = in.photos, !.flag = in.flag]]
                /\ nextId' = nextId + 1
                /\ UNCHANGED res
           ELSE IF index = 0
           THEN /\ res' = Resp(op, 404, "notfound", id)
                /\ inflight' = [inflight EXCEPT !.begun = @ + 1]
                /\ UNCHANGED <<disk, thumbs, nextId>>
           ELSE IF op = "append"
           THEN /\ Free >= 1
                /\ \E in \in {concIngest(id, data[index])} :
                     /\ disk' = Put(disk, id, in.d)
                     /\ thumbs' = PutThumbs(id, in.th)
                     /\ inflight' = [inflight EXCEPT !.begun = @ + 1, !.reqs[slot] =
                                        [req EXCEPT !.photos = in.photos, !.flag = in.flag]]
                /\ UNCHANGED <<res, nextId>>
           ELSE IF op = "delete"
           THEN /\ disk' = Drop(disk, id)
                /\ thumbs' = Drop(thumbs, id)
                /\ inflight' = [inflight EXCEPT !.begun = @ + 1, !.reqs[slot] = req]
                /\ UNCHANGED <<res, nextId>>
           ELSE /\ inflight' = [inflight EXCEPT !.begun = @ + 1, !.reqs[slot] = req]
                /\ UNCHANGED <<res, disk, thumbs, nextId>>
    /\ UNCHANGED <<env, backend, albums, deleted, clientVars, calc, viewer, masonry>>

\* A variant that applies the change to the document as it is now.
writeBase_fresh(req) == albums

\* The document a handler changes and writes: the one it read.
writeBase(req) == req.data

\* The document a handler writes back.
written(req) ==
    LET data == writeBase(req)
        index == findIndex(data, req.id)
    IN  IF req.op = "upload"
        THEN Append(data, [Album(req.id, <<"W">>, req.flag) EXCEPT
                              !.photos = req.photos,
                              !.thumbnail = IF req.photos # <<>>
                                            THEN req.photos[1].thumbnail ELSE <<>>])
        ELSE IF index = 0 THEN data
        ELSE IF req.op = "append"
        THEN [data EXCEPT ![index] =
                [@ EXCEPT !.photos = @ \o req.photos,
                          !.thumbnail = IF @ = <<>> /\ req.photos # <<>>
                                        THEN req.photos[1].thumbnail ELSE @,
                          !.hasLightMax = req.flag]]
        ELSE IF req.op = "update"
        THEN [data EXCEPT ![index].name = <<"V">>]
        ELSE splice(data, index)

\* writeAlbumsData / write_albums_data and the success response.
Commit(slot) ==
    /\ inflight.reqs[slot] # FreeSlot
    /\ LET req == inflight.reqs[slot]
       IN  /\ albums' = written(req)
           /\ deleted' = IF req.op = "delete" THEN deleted \cup {req.id} ELSE deleted
           /\ res' = [Resp(req.op, IF req.op \in {"upload", "append"} THEN 201 ELSE 200, "", req.id)
                        EXCEPT !.wrote = TRUE, !.added = Len(req.photos)]
           /\ inflight' = [inflight EXCEPT
                  !.reqs[slot] = FreeSlot,
                  !.acked[req.id] = @ + Len(req.photos)]
    /\ UNCHANGED <<env, backend, disk, thumbs, nextId, clientVars, calc, viewer, masonry>>

ConcInit ==
    /\ env = [names |-> {<<"W">>}, files |-> ValidFileInputs, faults |-> FALSE]
    /\ backend \in {"node", "php"}
    /\ albums = <<>>
    /\ disk = <<>>
    /\ thumbs = <<>>
    /\ nextId = 1
    /\ deleted = {}
    /\ res = Resp("none", 0, "", 0)
    /\ NoClient
    /\ calc = Unmounted
    /\ viewer = Unmounted
    /\ masonry = Unmounted
    /\ inflight = [reqs |-> [slot \in Slots |-> FreeSlot],
                   acked |-> [id \in AlbumIds |-> 0],
                   begun |-> 0]

ConcNext ==
    \/ \E slot \in Slots, op \in ConcOps, id \in AlbumIds : Begin(slot, op, id)
    \/ \E slot \in Slots : Commit(slot)

ConcSpec == ConcInit /\ [][ConcNext]_vars

\* ------------------------------------------- uploadAlbum against a backend
\* uploadAlbum's requests served by the deployed backend: each XHR of
\* uploadBatch is handled by POST /api/upload or POST /api/albums/:id/photos,
\* and its response settles the promise uploadAlbum awaits.

\* The i-th file name of a folder: names differ in their length.
PhotoName(i) == [k \in 1 .. i |-> "a"]

PairedFile(variant, i) == [segs |-> <<variant>>, base |-> PhotoName(i), kind |-> "ok"]

\* The order in which the files of a folder with light/ and max/ reach
\* uploadAlbum: one sub-folder after the other, as the recursive directory
\* read lists them, or the two variants of each photo side by side.
FileOrders == {"folders", "pairs"}

\* A paired set of n photos: light/<name> and max/<name> for each of them.
PairedSet(n, order) ==
    IF order = "folders"
    THEN [i \in 1 .. 2 * n |-> IF i <= n THEN PairedFile("light", i)
                                ELSE PairedFile("max", i - n)]
    ELSE [i \in 1 .. 2 * n |-> IF i % 2 = 1 THEN PairedFile("light", (i + 1) \div 2)
                                ELSE PairedFile("max", i \div 2)]

PairCounts == 1 .. (MaxFiles \div 2)

NoResponse == Resp("none", 0, "", 0)

\* The caller: handleUpload passes the folder's files to uploadAlbum.
uploadPairedSet(n, order) ==
    /\ upload.pc = "idle"
    /\ upload' = uploadAlbumCall(PairedSet(n, order))
    /\ UNCHANGED <<auxVars, serverVars, storage, gallery, admin, zone>>

\* The backend handles the request of the running uploadBatch.
serveUploadBatch ==
    /\ upload.pc \in {"single", "create", "batch"}
    /\ res = NoResponse
    /\ LET req == upload.sent[Len(upload.sent)]
       IN  IF req.to = "upload"
           THEN \/ NodeBulkUpload(<<"W">>, req.files, NoFault)
                \/ handle_bulk_upload(<<"W">>, req.files, NoFault)
           ELSE \/ NodeAppendPhotos(req.albumId, req.files, NoFault)
                \/ handle_append_photos(req.albumId, req.files, NoFault)

\* xhr.onload: the response resolves or rejects the promise of uploadBatch.
xhrOnload ==
    /\ upload.pc \in {"single", "create", "batch"}
    /\ res # NoResponse
    /\ upload' = afterBatch(upload, res.status >= 200 /\ res.status < 300, res.id)
    /\ res' = NoResponse
    /\ UNCHANGED <<auxVars, env, backend, albums, disk, thumbs, nextId, deleted,
                   storage, gallery, admin, zone>>

ChunkInit ==
    /\ env = [names |-> {<<"W">>}, files |-> {}, faults |-> FALSE]
    /\ backend \in {"node", "php"}
    /\ albums = <<>>
    /\ disk = <<>>
    /\ thumbs = <<>>
    /\ nextId = 1
    /\ deleted = {}
    /\ res = NoResponse
    /\ NoAux
    /\ storage = "none"
    /\ gallery = Unmounted
    /\ admin = Unmounted
    /\ zone = Unmounted
    /\ upload = [pc |-> "idle", files |-> <<>>, albumId |-> 0, i |-> 0,
                 totalUploaded |-> 0, sent |-> <<>>]

ChunkNext ==
    \/ \E n \in PairCounts, order \in FileOrders : uploadPairedSet(n, order)
    \/ serveUploadBatch
    \/ xhrOnload
    \/ \E ok \in BOOLEAN : getAlbumByIdSettles(ok)

ChunkSpec == ChunkInit /\ [][ChunkNext]_vars

\* ================================================== MobilePortraitMasonry
\* src/src/utils/downloader.ts: the drifting masonry of the mobile gallery.
\* Times are in milliseconds; the clock advances in steps of TickMs.

DRIFT_DURATION == 15000

PAUSE_AFTER_INTERACTION == 5000

DRIFT_START_DELAY == 500

SCROLLBAR_PAUSE == 3000

\* The step of the clock: the shortest of the delays.
TickMs == DRIFT_START_DELAY

NoTimer == 0 - 1

\* The component after its first render and effect: the effect has set the
\* timeout that starts the drift.  current is the timer userScrollTimeout
\* refers to, leaked the timers set by handleTouchEnd that the ref no longer
\* refers to; fingers, dragging and quiet describe the user: the fingers on
\* the grid, the scrollbar being held, the time since the last interaction
\* ended.  wrote tells that the last step was a frame of the drift that set
\* scrollTop.
MasonryMount ==
    [pc |-> "mounted", isUserScrolling |-> FALSE, isDrifting |-> FALSE,
     raf |-> "none", elapsed |-> 0, startTimer |-> DRIFT_START_DELAY,
     current |-> NoTimer, leaked |-> {}, fingers |-> 0, dragging |-> FALSE,
     quiet |-> PAUSE_AFTER_INTERACTION, wrote |-> FALSE]

\* The render after a handler and the effect with the dependencies
\* [isUserScrolling, isDrifting, startDrift]: when one of them changed, the
\* cleanup of the previous run (clearTimeout of the start timeout, or
\* cancelAnimationFrame) and then the new run.
driftEffect(old, new) ==
    LET cleaned == IF ~old.isUserScrolling /\ ~old.isDrifting
                   THEN [new EXCEPT !.startTimer = NoTimer]
                   ELSE [new EXCEPT !.raf = "none"]
    IN  IF old.isUserScrolling = new.isUserScrolling /\ old.isDrifting = new.isDrifting
        THEN new
        ELSE IF ~cleaned.isUserScrolling /\ ~cleaned.isDrifting
        THEN [cleaned EXCEPT !.startTimer = DRIFT_START_DELAY]
        ELSE cleaned

MasonryStep(new) ==
    /\ masonry' = driftEffect(masonry, new)
    /\ UNCHANGED <<serverVars, clientVars, calc, inflight, viewer>>

\* The start timeout fires: startDrift().  The startDrift the effect holds
\* was created in a render with isUserScrolling false, so its guard passes.
startDrift ==
    /\ masonry.startTimer = 0
    /\ MasonryStep([masonry EXCEPT !.startTimer = NoTimer, !.isDrifting = TRUE,
                                   !.elapsed = 0, !.raf = "animate", !.wrote = FALSE])

\* A frame of the drift.  animate reads the isUserScrolling of the render
\* that created startDrift, which is false, and sets scrollTop.
animate ==
    /\ masonry.raf = "animate"
    /\ MasonryStep(IF masonry.elapsed < DRIFT_DURATION
                   THEN [masonry EXCEPT !.wrote = TRUE]
                   ELSE [masonry EXCEPT !.wrote = TRUE, !.isDrifting = FALSE,
                                        !.raf = "startDrift"])

handleTouchStart ==
    /\ masonry.fingers < MaxFingers
    /\ MasonryStep([masonry EXCEPT !.isUserScrolling = TRUE, !.isDrifting = FALSE,
                                   !.raf = "none", !.current = NoTimer,
                                   !.fingers = @ + 1, !.wrote = FALSE])

handleTouchEnd ==
    /\ masonry.fingers > 0
    /\ masonry.current = NoTimer \/ Cardinality(masonry.leaked) + 1 < MaxTimers
    /\ MasonryStep([masonry EXCEPT
                      !.leaked = IF masonry.current = NoTimer THEN @
                                 ELSE @ \cup {masonry.current},
                      !.current = PAUSE_AFTER_INTERACTION,
                      !.fingers = @ - 1, !.quiet = 0, !.wrote = FALSE])

handleScrollbarPointerDown ==
    /\ ~masonry.dragging
    /\ MasonryStep([masonry EXCEPT !.dragging = TRUE, !.isUserScrolling = TRUE,
                                   !.current = SCROLLBAR_PAUSE, !.wrote = FALSE])

handlePointerUp ==
    /\ masonry.dragging
    /\ MasonryStep([masonry EXCEPT !.dragging = FALSE, !.quiet = 0, !.wrote = FALSE])

\* A timeout set by handleTouchEnd or handleScrollbarPointerDown fires.
userScrollTimeoutFires ==
    \/ /\ masonry.current = 0
       /\ MasonryStep([masonry EXCEPT !.current = NoTimer, !.isUserScrolling = FALSE,
                                      !.wrote = FALSE])
    \/ /\ 0 \in masonry.leaked
       /\ MasonryStep([masonry EXCEPT !.leaked = @ \ {0}, !.isUserScrolling = FALSE,
                                      !.wrote = FALSE])

Later(t) == IF t = NoTimer THEN NoTimer ELSE t - TickMs

UpTo(t, limit) == IF t + TickMs > limit THEN limit ELSE t + TickMs

\* TickMs pass; a timeout that is due fires first.
MasonryTick ==
    /\ masonry.startTimer # 0
    /\ masonry.current # 0
    /\ 0 \notin masonry.leaked
    /\ MasonryStep([masonry EXCEPT
                      !.startTimer = Later(@), !.current = Later(@),
                      !.leaked = { Later(t) : t \in @ },
                      !.elapsed = UpTo(@, DRIFT_DURATION),
                      !.quiet = UpTo(@, PAUSE_AFTER_INTERACTION),
                      !.wrote = FALSE])

MasonryInit ==
    /\ ServerIdle
    /\ NoClient
    /\ calc = Unmounted
    /\ inflight = <<>>
    /\ viewer = Unmounted
    /\ masonry = MasonryMount

MasonryNext ==
    \/ startDrift
    \/ animate
    \/ handleTouchStart
    \/ handleTouchEnd
    \/ handleScrollbarPointerDown
    \/ handlePointerUp
    \/ userScrollTimeoutFires
    \/ MasonryTick

MasonrySpec == MasonryInit /\ [][MasonryNext]_vars

\* ======================================================= MobileCinemaMode
\* src/src/utils/downloader.ts: the zoom of the mobile full-screen viewer.
\* Scales are in thousandths (1000 is 1.0); a product that is not a whole
\* number of thousandths is cut to the thousandth below.

MIN_SCALE == 1000

MAX_SCALE == 5000

SNAP_SCALE == 1010

DOUBLE_TAP_SCALE == 2500

\* Distances between the two fingers of a pinch, in pixels: two fingers are
\* never at the same point.  pinches counts the pinch gestures of the run.
DistanceInputs == {100, 101, 250}

\* Movements of a pan, and the half width and height of the container, in
\* the unit of the pan offset.
DeltaInputs == { <<1, 0>>, <<0, 1>>, <<0 - 1, 0>>, <<0, 0 - 1>> }

HalfBounds == 1

Origin == [x |-> 0, y |-> 0]

ViewerMount ==
    [pc |-> "open", scale |-> MIN_SCALE, position |-> Origin, photo |-> 0,
     touches |-> 0, isPinching |-> FALSE, initialDistance |-> 0,
     initialScale |-> MIN_SCALE, tapped |-> FALSE, pinches |-> 0]

ViewerStep(new) ==
    /\ viewer.pc = "open"
    /\ viewer' = new
    /\ UNCHANGED <<serverVars, clientVars, calc, inflight, masonry>>

Min(a, b) == IF a < b THEN a ELSE b

Max(a, b) == IF a > b THEN a ELSE b

\* initialScale.current * (distance / initialDistance.current): a division
\* by zero gives Infinity, which the clamp turns into the maximum.
rawScale(v, distance) ==
    IF v.initialDistance = 0 THEN MAX_SCALE + 1
    ELSE (v.initialScale * distance) \div v.initialDistance

clampedScale(raw) == Min(MAX_SCALE, Max(MIN_SCALE, raw))

normalizedScale_kept(clamped) == clamped

normalizedScale(clamped) == IF clamped <= SNAP_SCALE THEN MIN_SCALE ELSE clamped

\* goToFlatIndex
goToFlatIndex(v, flatIdx) ==
    IF flatIdx < 0 \/ flatIdx >= MaxPhotos THEN v
    ELSE [v EXCEPT !.scale = MIN_SCALE, !.position = Origin, !.photo = flatIdx]

\* handleTap; quick tells that the last tap was less than 300 ms ago.
handleTap(v, quick) ==
    [(IF v.tapped /\ quick
      THEN IF v.scale > MIN_SCALE
           THEN [v EXCEPT !.scale = MIN_SCALE, !.position = Origin]
           ELSE [v EXCEPT !.scale = DOUBLE_TAP_SCALE]
      ELSE v) EXCEPT !.tapped = TRUE]

\* handleTouchStart with e.touches.length = n
viewerTouchStart(n, distance) ==
    /\ n > viewer.touches
    /\ n = 2 => viewer.pinches < MaxPinches
    /\ ViewerStep(IF n = 2
                  THEN [viewer EXCEPT !.touches = n, !.isPinching = TRUE,
                                      !.pinches = @ + 1,
                                      !.initialDistance = distance,
                                      !.initialScale = viewer.scale]
                  ELSE IF n = 1
                  THEN [viewer EXCEPT !.touches = n, !.isPinching = FALSE]
                  ELSE [viewer EXCEPT !.touches = n])

\* handleTouchMove
viewerTouchMove(distance) ==
    /\ viewer.touches > 0
    /\ ViewerStep(IF viewer.touches = 2
                  THEN LET scale == normalizedScale(clampedScale(rawScale(viewer, distance)))
                       IN  [viewer EXCEPT !.scale = scale,
                                          !.position = IF scale = MIN_SCALE THEN Origin ELSE @]
                  ELSE viewer)

\* handleTouchEnd with e.touches.length = n
viewerTouchEnd(n, quick) ==
    /\ n < viewer.touches
    /\ ViewerStep(IF viewer.isPinching
                  THEN [viewer EXCEPT !.touches = n,
                                      !.isPinching = IF n = 0 THEN FALSE ELSE @,
                                      !.tapped = FALSE]
                  ELSE handleTap([viewer EXCEPT !.touches = n], quick))

\* handlePan
handlePan(delta) ==
    /\ viewer.touches > 0
    /\ viewer.position.x + delta[1] \in (0 - MaxPan) .. MaxPan
    /\ viewer.position.y + delta[2] \in (0 - MaxPan) .. MaxPan
    /\ ViewerStep(IF viewer.scale > MIN_SCALE
                  THEN [viewer EXCEPT !.position.x = @ + delta[1],
                                      !.position.y = @ + delta[2]]
                  ELSE viewer)

\* handlePanEnd: a swipe that navigates by steps photos when not zoomed,
\* the pan offset brought back within the zoomed image otherwise.
handlePanEnd(steps) ==
    /\ viewer.touches > 0
    /\ ViewerStep(IF viewer.scale = MIN_SCALE
                  THEN IF steps = 0 THEN viewer
                       ELSE goToFlatIndex(viewer, viewer.photo + steps)
                  ELSE LET maxXY == ((viewer.scale - MIN_SCALE) * HalfBounds) \div MIN_SCALE
                       IN  [viewer EXCEPT
                              !.position.x = Min(Max(@, 0 - maxXY), maxXY),
                              !.position.y = Min(Max(@, 0 - maxXY), maxXY)])

ViewerInit ==
    /\ ServerIdle
    /\ NoClient
    /\ calc = Unmounted
    /\ inflight = <<>>
    /\ masonry = Unmounted
    /\ viewer = ViewerMount

ViewerNext ==
    \/ \E n \in 1 .. MaxFingers + 1, distance \in DistanceInputs : viewerTouchStart(n, distance)
    \/ \E distance \in DistanceInputs : viewerTouchMove(distance)
    \/ \E n \in 0 .. MaxFingers, quick \in BOOLEAN : viewerTouchEnd(n, quick)
    \/ \E delta \in DeltaInputs : handlePan(delta)
    \/ \E steps \in {0 - 1, 0, 1} : handlePanEnd(steps)

ViewerSpec == ViewerInit /\ [][ViewerNext]_vars

\* ============================================================== functions
\* Functions of the program applied to inputs drawn from bounded sets.

\* ---------------------------------------------------------- classification
\* Folder names of a relative path: the two variants in several letter
\* cases, and a folder that is neither.
SegmentInputs == { "light", "Light", "LIGHT", "max", "Max", "x" }

\* The ancestor segments of an uploaded file's relative path, outermost first.
PathInputs == SeqsUpTo(SegmentInputs, MaxDepth)

\* Node: the branch of the loop over req.files a file takes.
nodeFolderType(file) ==
    IF startsWith(file, "light") THEN "light"
    ELSE IF startsWith(file, "max") THEN "max"
    ELSE ""

\* A file with the relative folder 'path' is classified by both servers.
Classify(path) ==
    /\ calc' = [pc |-> "classify",
                path |-> path,
                node |-> nodeFolderType(reqFiles(<<[segs |-> path, base |-> <<"a">>, kind |-> "ok"]>>)[1]),
                php |-> parse_upload_path(path)]
    /\ UNCHANGED <<serverVars, clientVars, inflight, viewer, masonry>>

ClassifyInit ==
    /\ ServerIdle
    /\ NoClient
    /\ calc = [pc |-> "idle"]
    /\ inflight = <<>>
    /\ viewer = Unmounted
    /\ masonry = Unmounted

ClassifyNext == \E path \in PathInputs : Classify(path)

ClassifySpec == ClassifyInit /\ [][ClassifyNext]_vars

\* -------------------------------------------------------------- thumbnails
THUMBNAIL_SIZE == 400

\* Widths and heights of decodable source images, in pixels.
DimInputs == {1, 2, 200, 399, 400, 401, 600, 800, 1067, 1600, 4000}

\* A thumbnail: the canvas is size x size, and the source image, scaled to
\* newWidth x newHeight, is placed with its top left corner at (dstX, dstY)
\* of the canvas; what falls outside the canvas is cropped.
Placed(newWidth, newHeight, dstX, dstY) ==
    [size |-> THUMBNAIL_SIZE, newWidth |-> newWidth, newHeight |-> newHeight,
     dstX |-> dstX, dstY |-> dstY]

Round(num, den) == (2 * num + den) \div (2 * den)

\* generateThumbnail: sharp's resize with fit 'cover' and position 'center'
\* scales the image until both dimensions reach the target and extracts the
\* centre.
generateThumbnail(w, h) ==
    LET newWidth == IF w <= h THEN THUMBNAIL_SIZE
                    ELSE Max(THUMBNAIL_SIZE, Round(w * THUMBNAIL_SIZE, h))
        newHeight == IF h <= w THEN THUMBNAIL_SIZE
                     ELSE Max(THUMBNAIL_SIZE, Round(h * THUMBNAIL_SIZE, w))
    IN  Placed(newWidth, newHeight,
               0 - ((newWidth - THUMBNAIL_SIZE) \div 2),
               0 - ((newHeight - THUMBNAIL_SIZE) \div 2))

\* create_thumbnail: $ratio = min($targetSize / $width, $targetSize / $height),
\* the scaled image is copied onto a black canvas.
create_thumbnail(w, h) ==
    LET longer == Max(w, h)
        newWidth == Max(1, (w * THUMBNAIL_SIZE) \div longer)
        newHeight == Max(1, (h * THUMBNAIL_SIZE) \div longer)
    IN  Placed(newWidth, newHeight,
               (THUMBNAIL_SIZE - newWidth) \div 2,
               (THUMBNAIL_SIZE - newHeight) \div 2)

Thumbnail(w, h) ==
    /\ calc' = [pc |-> "thumb", w |-> w, h |-> h,
                node |-> generateThumbnail(w, h), php |-> create_thumbnail(w, h)]
    /\ UNCHANGED <<serverVars, clientVars, inflight, viewer, masonry>>

ThumbInit == ClassifyInit

ThumbNext == \E w \in DimInputs, h \in DimInputs : Thumbnail(w, h)

ThumbSpec == ThumbInit /\ [][ThumbNext]_vars

\* ================================================================ claims
AppendStep(id, batch) ==
    NodeAppendPhotos(id, batch, NoFault) \/ handle_append_photos(id, batch, NoFault)

BulkStep(name, batch) ==
    NodeBulkUpload(name, batch, NoFault) \/ handle_bulk_upload(name, batch, NoFault)

AllValid(batch) == \A i \in DOMAIN batch : batch[i].kind = "ok"

HasTag(batch, tag) == \E i \in DOMAIN batch : parse_upload_path(batch[i].segs) = tag

StoredAlbum(id) == albums[findIndex(albums, id)]

IsStored(id) == findIndex(albums, id) # 0

UploadOps == {"append", "upload"}

\* C1: for an album whose stored hasLightMax is true, an append whose batch
\* (of valid files) has light-tagged files and no max-tagged file is rejected
\* with the structure-mismatch error, and the album's photos are as before.
C1_LightOnlyRejected ==
    [][\A id \in AlbumIds, batch \in Batches :
         ( /\ IsStored(id)
           /\ StoredAlbum(id).hasLightMax
           /\ AllValid(batch) /\ HasTag(batch, "light") /\ ~HasTag(batch, "max")
           /\ AppendStep(id, batch) )
         => /\ res'.status = 400
            /\ res'.err = "structure"
            /\ albums' = albums]_vars

\* C2: an album's hasLightMax flag never goes from true to false while the
\* album stays in the store.
C2_FlagOnlyRises ==
    [][\A i \in DOMAIN albums, j \in DOMAIN albums' :
         (albums[i].hasLightMax /\ albums'[j].id = albums[i].id)
         => albums'[j].hasLightMax]_vars

\* C2 witness: a flat-mode append has just succeeded on an album whose flag
\* is true (the flat branch never sets the flag, so it was true before).
C2_Witness ==
    /\ res.op = "append" /\ res.status = 201 /\ res.flat
    /\ IsStored(res.id) /\ StoredAlbum(res.id).hasLightMax

\* C3: an accepted upload never overwrites a stored file: every file it
\* moves into the album's directories is a file more on disk.
C3_NeverOverwrites ==
    [][(res'.op \in UploadOps /\ res'.status = 201)
         => TotalFiles' = TotalFiles + res'.stored]_vars

\* The album holds flat-mode uploads only, and at least one.
FlatOnly(id) ==
    /\ IsStored(id)
    /\ ~StoredAlbum(id).hasLightMax
    /\ StoredAlbum(id).photos # <<>>
    /\ \A i \in DOMAIN StoredAlbum(id).photos : StoredAlbum(id).photos[i].src.dir = "root"
    /\ DirOf(id).light = {} /\ DirOf(id).max = {}

ZipTops(zip) == { e.top[1] : e \in zip }

\* C4: the ZIP of an album with flat uploads only has exactly one top-level
\* folder, and that folder holds exactly the files stored for the album.
C4_FlatZipRoundTrip ==
    (res.op = "download" /\ res.status = 200 /\ FlatOnly(res.id))
    => /\ Cardinality(ZipTops(res.zip)) = 1
       /\ res.zip = ZipFiles(ZipFolder("flat", StoredAlbum(res.id).name), "",
                             DirOf(res.id).root)

\* C5: an accepted batch processed in flat mode adds as many Photos as the
\* batch has files that pass validation.
C5_FlatPhotoCount ==
    (res.op \in UploadOps /\ res.status = 201 /\ res.flat) => res.added = res.valid

\* C6: in a batch that reaches validation with an invalid file and
\* valid ones, the valid ones still become Photos.
C6_InvalidFailsAlone ==
    (res.op \in UploadOps /\ res.err \notin {"name", "notfound"}
       /\ res.valid > 0 /\ res.files > res.valid)
    => res.added > 0

C8_EmptyUploadRejected ==
    [][\A id \in AlbumIds, name \in NameInputs :
         ((IsStored(id) /\ AppendStep(id, <<>>)) \/ BulkStep(name, <<>>))
         => (res'.status = 400 /\ albums' = albums /\ ~res'.wrote)]_vars

\* C9: every album in the store has a name that is not empty or blank.
C9_NameNonEmpty == \A i \in DOMAIN albums : Trim(albums[i].name) # <<>>

\* C10: after a successful delete the id is unknown: it is not in the list,
\* and a later get or delete of it is answered 404 and changes nothing.
C10_DeletedStaysUnknown ==
    [][/\ \A id \in deleted' : ~\E i \in DOMAIN albums' : albums'[i].id = id
       /\ (res'.op \in {"get", "delete"} /\ res'.id \in deleted)
            => (res'.status = 404 /\ albums' = albums /\ disk' = disk)]_vars

\* C10 witness: a delete was repeated on an id deleted before.
C10_Witness ==
    /\ res.op = "delete" /\ res.status = 404 /\ res.id \in deleted
    /\ albums # <<>>

\* C11: createAlbum(name) with a valid name, followed by getAlbum of the
\* returned id, returns an album with that very name, no photos and a
\* non-empty id.
C11_CreateThenGet ==
    [][(res.op = "create" /\ res.status = 201 /\ res'.op = "get" /\ res'.id = res.id)
         => /\ res'.status = 200
            /\ res'.body # <<>>
            /\ res'.body[1].name = res.name
            /\ res'.body[1].photos = <<>>
            /\ res'.body[1].id \in AlbumIds]_vars

\* C11 amended: the album returned carries the name with its leading and
\* trailing whitespace removed.
C11_CreateThenGetTrimmed ==
    [][(res.op = "create" /\ res.status = 201 /\ res'.op = "get" /\ res'.id = res.id)
         => /\ res'.status = 200
            /\ res'.body # <<>>
            /\ res'.body[1].name = Trim(res.name)
            /\ res'.body[1].photos = <<>>
            /\ res'.body[1].id \in AlbumIds]_vars

\* C11 witness: getAlbum has returned an album that was created from a padded
\* name and holds no photos.
C11_Witness ==
    /\ res.op = "get" /\ res.status = 200 /\ res.body # <<>>
    /\ res.body[1].name = <<"W">> /\ res.body[1].photos = <<>>

\* C12: an append that adds photos to an album whose thumbnail is unset makes
\* the thumbnail of the first newly added photo the album's thumbnail; an
\* append to an album whose thumbnail is set leaves the thumbnail as it is.
C12_ThumbnailOnAppend ==
    [][(res'.op = "append" /\ res'.status = 201 /\ res'.added > 0)
         => LET old == StoredAlbum(res'.id)
                new == albums'[findIndex(albums', res'.id)]
            IN  /\ Len(new.photos) = Len(old.photos) + res'.added
                /\ IF old.thumbnail = <<>>
                   THEN new.thumbnail = new.photos[Len(old.photos) + 1].thumbnail
                   ELSE new.thumbnail = old.thumbnail]_vars

\* C12 witness: two appends have added photos to one album, and the
\* thumbnail is still that of the album's first photo.
C12_Witness ==
    /\ res.op = "append" /\ res.status = 201 /\ res.added > 0
    /\ Len(StoredAlbum(res.id).photos) > res.added
    /\ StoredAlbum(res.id).thumbnail = StoredAlbum(res.id).photos[1].thumbnail
    /\ StoredAlbum(res.id).photos[1].thumbnail
         # StoredAlbum(res.id).photos[Len(StoredAlbum(res.id).photos)].thumbnail

\* C13: a batch accepted in light/max mode adds exactly one Photo per light
\* file and none for a max file: the album's photo count grows by the number
\* of light files, and no Photo of the album points into the max directory.
C13_OnePhotoPerLight ==
    [][(res'.op \in UploadOps /\ res'.status = 201 /\ ~res'.flat)
         => LET old == IF res'.op = "append" THEN Len(StoredAlbum(res'.id).photos) ELSE 0
                new == albums'[findIndex(albums', res'.id)].photos
            IN  /\ res'.added = res'.light
                /\ Len(new) = old + res'.light
                /\ \A i \in DOMAIN new : new[i].src.dir # "max"]_vars

\* C13 witness: a batch with a light file and a max file was accepted in
\* light/max mode.
C13_Witness ==
    /\ res.op \in UploadOps /\ res.status = 201 /\ ~res.flat
    /\ res.light = 1 /\ res.files = 2 /\ res.stored = 2 /\ res.added = 1

\* C14: the ZIP of a light/max album has exactly two top-level folders, and
\* every entry lies in the folder of its own variant.
C14_LightMaxZip ==
    (res.op = "download" /\ res.status = 200 /\ IsStored(res.id)
       /\ StoredAlbum(res.id).hasLightMax)
    => /\ Cardinality(ZipTops(res.zip)) = 2
       /\ \A e \in res.zip :
            \/ e.top[Len(e.top)].kind = "light" /\ e.file[1] \in DirOf(res.id).light
            \/ e.top[Len(e.top)].kind = "max" /\ e.file[1] \in DirOf(res.id).max

\* C20: a request that fails on a disk write, a thumbnail or a ZIP is
\* answered with status 500.
C20_IoFailureIs500 == res.err = "io" => res.status = 500

\* C15: every management request the client sends (an album upload, an
\* album delete) is sent by a session whose stored role is owner.
C15_ManagementOnlyOwner ==
    admin.pc # "unmounted" => \A op \in admin.ops : op.role = "owner"

\* C16: every download the gallery starts is started by a session whose
\* role is owner, and the role leaves "unset" only by a login whose
\* passphrase is the secret of the role it sets: a passphrase that matches
\* neither secret leaves the role unset.
C16_DownloadOnlyOwner ==
    [][/\ \A d \in gallery'.downloads : d.role = "owner"
       /\ gallery'.isDownloading /\ ~gallery.isDownloading => gallery.userRole = "owner"
       /\ (gallery.userRole = "none" /\ gallery'.userRole # "none") =>
              gallery.passwordInput =
                  (IF gallery'.userRole = "owner" THEN PASSWORD_OWNER ELSE PASSWORD_GUEST)
       /\ (gallery.userRole = "none"
             /\ gallery.passwordInput \notin {PASSWORD_OWNER, PASSWORD_GUEST}) =>
              /\ gallery'.userRole = "none"
              /\ storage' = storage]_vars

C16_Witness ==
    /\ gallery.pc = "done"
    /\ gallery.downloads # {}
    /\ gallery.userRole = "none"
    /\ gallery.passwordError
    /\ gallery.passwordInput = "lena2025"

\* The files of the requests sent so far, in the order they were sent.
RECURSIVE SentFiles(_)
SentFiles(sent) ==
    IF sent = <<>> THEN <<>> ELSE Head(sent).files \o SentFiles(Tail(sent))

\* C17: an upload of more than 30 files is sent as consecutive batches of
\* at most 30 files, in the order of the list; a batch is sent only when
\* every batch before it has succeeded; the first batch goes to the
\* album-creating endpoint and every later one to the photos of the album id
\* the first answer carried; no file is sent twice, and when the upload has
\* succeeded every file has been sent.
C17_ChunkedUpload ==
    (upload.pc \notin {"unmounted", "idle"} /\ Len(upload.files) > BATCH_SIZE) =>
        LET sent == upload.sent
            all == SentFiles(sent)
        IN /\ sent # <<>>
           /\ \A k \in DOMAIN sent :
                /\ Len(sent[k].files) >= 1
                /\ Len(sent[k].files) <= BATCH_SIZE
                /\ IF k = 1 THEN sent[k].to = "upload"
                   ELSE /\ sent[k].to = "photos"
                        /\ sent[k].albumId = upload.albumId
                        /\ upload.albumId \in AlbumIds
           /\ Len(all) <= Len(upload.files)
           /\ all = SubSeq(upload.files, 1, Len(all))
           /\ upload.totalUploaded >= Len(SentFiles(SubSeq(sent, 1, Len(sent) - 1)))
           /\ upload.pc = "resolved" => all = upload.files

C17_Witness ==
    /\ upload.pc = "resolved"
    /\ Len(upload.files) = 2 * BATCH_SIZE + 1
    /\ Len(upload.sent) = 3
    /\ Len(upload.sent[3].files) = 1

\* C18: once the health check has answered "unavailable" or the album fetch
\* has failed, the load is over: the loading flag is cleared, the albums
\* are the bundled demo albums, and the page shows the password form or the
\* gallery, never a loading or error view.
C18_ReadFallsBack ==
    (gallery.pc # "unmounted" /\ (gallery.backendAvailable = "no" \/ gallery.thrown)) =>
        /\ gallery.pc = "done"
        /\ ~gallery.isLoading
        /\ gallery.albums = mockAlbums
        /\ View(gallery) \in {"password", "gallery"}

C18_Witness ==
    /\ gallery.pc = "done"
    /\ gallery.thrown
    /\ gallery.backendAvailable = "yes"
    /\ gallery.albums = mockAlbums
    /\ View(gallery) = "gallery"

\* C19: the upload status is 'success' only if every folder of the run was
\* accepted by the backend; a run that is over without that has the status
\* 'error' and the uploading flag cleared; every failed album delete has
\* raised an alert.
C19_FailedWriteSurfaced ==
    admin.pc # "unmounted" =>
        /\ \A d \in admin.deletes : d.outcome = "failed" => d.alert
        /\ zone.pc # "unmounted" =>
             /\ zone.uploadStatus = "success" =>
                    zone.run.accepted = Len(zone.run.folders)
             /\ (zone.pc = "idle" /\ zone.run.accepted < Len(zone.run.folders)) =>
                    /\ zone.uploadStatus = "error"
                    /\ ~zone.isUploading

\* The deepest segment of a path that is "light" or "max" in any letter
\* case, in lower case; "" when no segment is.
DeepestVariant(path) ==
    LET hits == { i \in DOMAIN path : ToLower(path[i]) \in {"light", "max"} }
    IN  IF hits = {} THEN ""
        ELSE ToLower(path[CHOOSE i \in hits : \A j \in hits : j <= i])

\* C21: each server classifies an uploaded file as the deepest ancestor
\* segment of its relative path that is "light" or "max" in any letter case,
\* and as neither when no ancestor segment is one of the two.
C21_DeepestAncestor ==
    calc.pc = "classify" =>
        /\ calc.php = DeepestVariant(calc.path)
        /\ calc.node = DeepestVariant(calc.path)

\* The request that slot 'slot' finishes in this step.
Commits(slot) ==
    inflight.reqs[slot] # FreeSlot /\ inflight'.reqs[slot] = FreeSlot

AlbumIn(data, id) == data[findIndex(data, id)]

\* C22: an append writes back the album as it read it, extended by its own
\* photos, whatever other requests wrote in between; so two appends to one
\* album that overlap can both answer success while the stored album holds
\* the photos of only one of them (the witness).
C22_LostUpdate ==
    [][\A slot \in Slots :
         (Commits(slot) /\ inflight.reqs[slot].op = "append") =>
             LET req == inflight.reqs[slot]
             IN  /\ res'.status = 201
                 /\ findIndex(albums', req.id) # 0
                 /\ AlbumIn(albums', req.id).photos =
                        AlbumIn(req.data, req.id).photos \o req.photos]_vars

\* C22 witness: an upload and two appends to its album, all answered with
\* success: three photos acknowledged, two stored.
C22_Witness ==
    /\ inflight.begun = 3
    /\ \A slot \in Slots : inflight.reqs[slot] = FreeSlot
    /\ deleted = {}
    /\ inflight.acked[1] = 3
    /\ findIndex(albums, 1) # 0
    /\ Len(AlbumIn(albums, 1).photos) = 2

\* C23: a request on one album leaves every other album as it is in the
\* store: it neither removes it nor changes it.
C23_OtherAlbumsUntouched ==
    [][\A slot \in Slots :
         Commits(slot) =>
             \A other \in AlbumIds \ {inflight.reqs[slot].id} :
                 /\ (findIndex(albums, other) # 0) <=> (findIndex(albums', other) # 0)
                 /\ findIndex(albums, other) # 0 =>
                        AlbumIn(albums', other) = AlbumIn(albums, other)]_vars

\* C25: once a delete of an album has answered success, an append or a
\* rename of that album that was being served at the same time does not
\* bring the album back into the list.
C25_DeletedStaysGone ==
    [][\A slot \in Slots :
         ( /\ Commits(slot)
           /\ inflight.reqs[slot].op \in {"append", "update"}
           /\ inflight.reqs[slot].id \in deleted )
         => findIndex(albums', inflight.reqs[slot].id) = 0]_vars


\* The files of an album the store accounts for: the images of its Photos in
\* the album root and in light/, the max companions of its light Photos, and
\* the thumbnails of its Photos.
PhotoFiles(album, variant) ==
    { album.photos[i].src.name :
        i \in { j \in DOMAIN album.photos : album.photos[j].src.dir = variant } }

PhotoThumbs(album) ==
    { album.photos[i].thumbnail[1] : i \in DOMAIN album.photos }

NoOrphans ==
    /\ \A id \in DOMAIN disk : IsStored(id)
    /\ \A id \in DOMAIN thumbs : IsStored(id)
    /\ \A id \in DOMAIN disk :
         IsStored(id) =>
           /\ disk[id].root \subseteq PhotoFiles(StoredAlbum(id), "root")
           /\ disk[id].light \subseteq PhotoFiles(StoredAlbum(id), "light")
           /\ disk[id].max \subseteq PhotoFiles(StoredAlbum(id), "light")
    /\ \A id \in DOMAIN thumbs :
         IsStored(id) => thumbs[id] \subseteq PhotoThumbs(StoredAlbum(id))

\* C24: an upload or append that fails while storing or processing one of
\* its files leaves no orphaned state: if every file, thumbnail and album
\* directory belonged to the store before the request, they still do after it.
C24_NoOrphansAfterFailure ==
    [][(NoOrphans /\ res'.op \in UploadOps /\ res'.err = "io") => NoOrphans']_vars


\* The light files among the files passed to the running uploadAlbum.
LightCount ==
    Len(SelectSeq(upload.files, LAMBDA f : f.segs = <<"light">>))

\* C26: when uploadAlbum has resolved for a paired light/max set of more
\* than BATCH_SIZE files, the album it created is stored with hasLightMax
\* true and with exactly one Photo per light file of the set.
C26_ChunkedSameAsSingle ==
    (upload.pc = "resolved" /\ Len(upload.files) > BATCH_SIZE) =>
        /\ IsStored(1)
        /\ StoredAlbum(1).hasLightMax
        /\ Len(StoredAlbum(1).photos) = LightCount


\* The user is interacting with the masonry: a finger is on the grid, the
\* scrollbar is held, or the quiet period after the last interaction has
\* not yet elapsed.
Interacting ==
    \/ masonry.fingers > 0
    \/ masonry.dragging
    \/ masonry.quiet < PAUSE_AFTER_INTERACTION

\* C27: the drift never sets the scroll position while the user is
\* interacting, that is from a touch start or scrollbar press until the
\* quiet period after the last interaction has elapsed.
C27_DriftPausesWhileInteracting ==
    (masonry.pc = "mounted" /\ masonry.wrote) => ~Interacting


CoverFit(t) ==
    LET cropLeft == 0 - t.dstX
        cropRight == t.dstX + t.newWidth - t.size
        cropTop == 0 - t.dstY
        cropBottom == t.dstY + t.newHeight - t.size
    IN  /\ t.size = THUMBNAIL_SIZE
        /\ Min(t.newWidth, t.newHeight) = t.size
        /\ cropLeft >= 0 /\ cropRight >= 0 /\ cropTop >= 0 /\ cropBottom >= 0
        /\ cropLeft - cropRight \in {0 - 1, 0, 1}
        /\ cropTop - cropBottom \in {0 - 1, 0, 1}

\* C29: for every decodable source image the thumbnail is a 400 x 400
\* cover-fit: scaled so that the shorter dimension is 400, cropped
\* symmetrically about the centre, no part of the canvas left uncovered.
C29_ThumbnailCovers ==
    calc.pc = "thumb" => (CoverFit(calc.node) /\ CoverFit(calc.php))


====
